---------------------------- MODULE Spec2Model ----------------------------
(***************************************************************************)
(* A model of the hiero-block-bridge simulator core:                       *)
(*   - MockBlockStream   (src/src/simulator/mock-stream.ts), the block     *)
(*     generator with its start/stop/pause/resume/seek lifecycle,          *)
(*   - TypedEventEmitter (src/src/core/client.ts), the synchronous event   *)
(*     dispatch the generator and the router inherit,                      *)
(*   - QuerySimulator    (src/src/simulator/query-sim.ts), the lazily      *)
(*     refreshed query index,                                              *)
(*   - MirrorNodeFallback (src/src/simulator/mirror-fallback.ts), the      *)
(*     fallback router.                                                    *)
(*                                                                         *)
(* Strings that the code parses (account ids, transaction ids) are         *)
(* sequences of one-character strings, so that the regular expressions of  *)
(* the validation schemas are computed and not assumed.                    *)
(*                                                                         *)
(* Execution is single-threaded.  `stack` holds the calls of the generator *)
(* that are in progress; every frame on it is suspended inside an          *)
(* emitter.emit(...) call, i.e. while listeners run.  A listener may call  *)
(* the public operations (which nests a frame), return, or throw.  Timer   *)
(* callbacks and remote completions run only when the stack is empty.      *)
(***************************************************************************)
EXTENDS Integers, Sequences, FiniteSets, TLC

VARIABLES
    \* ---- MockBlockStream ----
    options,             \* the parsed SimulatorOptions (fixed at construction)
    running,             \* this.running
    paused,              \* this.paused
    intervalId,          \* this.intervalId (NoTimer = null)
    timers,              \* the interval timers that are armed in the event loop
    currentBlockNumber,  \* this.currentBlockNumber
    blocks,              \* this.blocks
    \* ---- TypedEventEmitter / event loop ----
    errorListener,       \* whether an 'error' listener is registered on the stream
    stack,               \* calls in progress, each suspended in an emit
    events,              \* events emitted so far in the current event-loop turn
    thrown,              \* the error the latest call delivered to its caller
    calls,               \* calls listeners have made in the current turn
    crashed,             \* an exception escaped a timer callback (uncaught)
    \* ---- QuerySimulator ----
    txIndex,             \* this.txIndex
    balanceIndex,        \* this.balanceIndex
    stateIndex,          \* this.stateIndex
    lastIndexedBlock,    \* this.lastIndexedBlock
    qresult,             \* the value the latest QuerySimulator query returned
    \* ---- MirrorNodeFallback ----
    strategy,            \* this.strategy
    hasPrimary,          \* whether this.primary is configured
    fallbackActive,      \* this.fallbackActive
    inflight,            \* remote calls awaiting the Mirror Node's answer
    timeouts,            \* the calls whose setTimeout(abort, timeoutMs) is armed
    aborted,             \* the calls whose controller the latest step aborted
    rlog,                \* what the latest router step did (primary/remote/events)
    rresult,             \* the value the latest router query resolved to
    \* ---- history ----
    mark                 \* the latest pause of the generator and what followed it

genVars   == <<options, running, paused, intervalId, timers, currentBlockNumber,
               blocks, errorListener, stack, events, thrown, calls, crashed>>
indexVars == <<txIndex, balanceIndex, stateIndex, lastIndexedBlock, qresult>>
routerVars == <<strategy, hasPrimary, fallbackActive, inflight, timeouts, aborted,
                rlog, rresult>>
obsVars == <<mark>>
vars == <<genVars, indexVars, routerVars, obsVars>>

----------------------------------------------------------------------------
(* Bounds of the model *)

\* blocks generated in one behaviour
MaxBlocks == 2
\* largest block number a seek() targets
MaxSeek == 1
\* calls of generator operations made by listeners in one event-loop turn
MaxListenerCalls == 1
\* interval timers armed at the same time
MaxTimers == 2
\* largest options.transactionsPerBlock explored
MaxTxPerBlock == 1
\* remote calls of the router in flight at the same time
MaxInflight == 2
\* transactions per block in the specification of the block assembly
MaxAssembledTxs == 2

----------------------------------------------------------------------------
(* Strings *)

Digits == {"0", "1", "2", "3", "4", "5", "6", "7", "8", "9"}

DigitChar(d) ==
    CASE d = 0 -> "0" [] d = 1 -> "1" [] d = 2 -> "2" [] d = 3 -> "3"
      [] d = 4 -> "4" [] d = 5 -> "5" [] d = 6 -> "6" [] d = 7 -> "7"
      [] d = 8 -> "8" [] d = 9 -> "9"

\* Number.prototype.toString() of a non-negative integer
RECURSIVE NatToStr(_)
NatToStr(n) ==
    IF n < 10 THEN <<DigitChar(n)>>
    ELSE NatToStr(n \div 10) \o <<DigitChar(n % 10)>>

\* String(n) / n.toString() of an integer
NumToStr(n) == IF n < 0 THEN <<"-">> \o NatToStr(0 - n) ELSE NatToStr(n)

\* String.prototype.padStart(width, '0')
RECURSIVE PadStart(_, _)
PadStart(s, width) ==
    IF Len(s) >= width THEN s ELSE PadStart(<<"0">> \o s, width)

\* the index just after the longest run of digits of s that starts at i
RECURSIVE DigitRunEnd(_, _)
DigitRunEnd(s, i) ==
    IF i <= Len(s) /\ s[i] \in Digits THEN DigitRunEnd(s, i + 1) ELSE i

\* /^\d+\.\d+\.\d+/ : 0 if s has no such prefix, else the index after it
AccountPrefixEnd(s) ==
    LET a == DigitRunEnd(s, 1) IN
    IF ~(a > 1 /\ a <= Len(s) /\ s[a] = ".") THEN 0
    ELSE LET b == DigitRunEnd(s, a + 1) IN
         IF ~(b > a + 1 /\ b <= Len(s) /\ s[b] = ".") THEN 0
         ELSE LET c == DigitRunEnd(s, b + 1) IN
              IF c > b + 1 THEN c ELSE 0

\* AccountIdSchema.safeParse(s).success
AccountIdSchema(s) == AccountPrefixEnd(s) = Len(s) + 1

\* TransactionIdSchema.safeParse(s).success
TransactionIdSchema(s) ==
    LET c == AccountPrefixEnd(s) IN
    /\ c > 0 /\ c <= Len(s) /\ s[c] = "@"
    /\ LET d == DigitRunEnd(s, c + 1) IN
       /\ d > c + 1 /\ d <= Len(s) /\ s[d] = "."
       /\ LET e == DigitRunEnd(s, d + 1) IN e > d + 1 /\ e = Len(s) + 1

\* `0.0.${n}`
AccountId(n) == <<"0", ".", "0", ".">> \o NatToStr(n)


----------------------------------------------------------------------------
(* Blocks: MockBlockStream's block assembly *)

\* previousHash of the first block: the empty string.  Hashes are numbers
\* >= 1: randomHex(48) draws 384 random bits, modelled as a fresh value.
NoHash == 0

\* randomHex(48) for the block appended to blks: a value no earlier block has
RandomHex(blks) == Len(blks) + 1

\* the stagger of the transactions of one block, in ms
TxStaggerMs == 50

\* makeTransactionId(payerAccountId, timestamp), timestamp in ms
makeTransactionId(payerAccountId, timestamp) ==
    LET seconds == timestamp \div 1000
        nanos   == (timestamp % 1000) * 1000000
    IN  payerAccountId \o <<"@">> \o NatToStr(seconds) \o <<".">>
          \o PadStart(NatToStr(nanos), 9)

\* (mutant) the payer is debited the amount without the fee
generateTransfersFeeFree(payerAccountId, r) ==
    << [accountId |-> payerAccountId,          amount |-> 0 - r.amount],
       [accountId |-> AccountId(r.recipient),  amount |-> r.amount],
       [accountId |-> AccountId(r.node),       amount |-> r.fee] >>

\* generateTransfers(payerAccountId, type)
generateTransfers(payerAccountId, r) ==
    << [accountId |-> payerAccountId,          amount |-> 0 - (r.amount + r.fee)],
       [accountId |-> AccountId(r.recipient),  amount |-> r.amount],
       [accountId |-> AccountId(r.node),       amount |-> r.fee] >>

\* one iteration of the loop of generateTransactions(blockTime)
generateTransaction(blockTime, i, r) ==
    LET payerAccountId == AccountId(r.payer)
        txTime == blockTime + (i - 1) * TxStaggerMs
    IN  [ transactionId      |-> makeTransactionId(payerAccountId, txTime),
          payerAccountId     |-> payerAccountId,
          status             |-> IF r.success THEN "SUCCESS" ELSE "INVALID_TRANSACTION",
          consensusTimestamp |-> txTime,
          transfers          |-> generateTransfers(payerAccountId, r) ]

\* (mutant) the loop stops one transaction short of transactionsPerBlock
generateTransactionsButLast(blockTime, rs) ==
    [i \in 1..(Len(rs) - 1) |-> generateTransaction(blockTime, i, rs[i])]

\* generateTransactions(blockTime): options.transactionsPerBlock transactions
generateTransactions(blockTime, rs) ==
    [i \in 1..Len(rs) |-> generateTransaction(blockTime, i, rs[i])]

\* (mutant) a state change for every transaction, failed ones too
generateStateChangesOfAll(transactions, rs) ==
    [ i \in 1..Len(transactions) |->
        [ entityId           |-> transactions[i].payerAccountId,
          newValue           |-> NumToStr(rs[i].newValue),
          transactionId      |-> transactions[i].transactionId,
          consensusTimestamp |-> transactions[i].consensusTimestamp ] ]

\* generateStateChanges(transactions, blockTime): one change per successful
\* transaction, in transaction order
RECURSIVE generateStateChanges(_, _)
generateStateChanges(transactions, rs) ==
    IF transactions = <<>> THEN <<>>
    ELSE LET tx == Head(transactions) IN
         (IF tx.status # "SUCCESS" THEN <<>>
          ELSE << [ entityId           |-> tx.payerAccountId,
                    newValue           |-> NumToStr(Head(rs).newValue),
                    transactionId      |-> tx.transactionId,
                    consensusTimestamp |-> tx.consensusTimestamp ] >>)
         \o generateStateChanges(Tail(transactions), Tail(rs))

\* the items of a block: its transactions, then its state changes
BlockItems(transactions, stateChanges) ==
    [i \in 1..Len(transactions) |-> [kind |-> "transaction", data |-> transactions[i]]]
    \o [i \in 1..Len(stateChanges) |-> [kind |-> "stateChange", data |-> stateChanges[i]]]

\* (mutant) the header is never linked to the log
PreviousHashUnlinked(blks) == NoHash

\* the header's previousHash: the hash of the last block of the log
PreviousHash(blks) ==
    IF Len(blks) > 0 THEN blks[Len(blks)].header.hash ELSE NoHash

SuccessCount(transactions) ==
    Cardinality({i \in 1..Len(transactions) : transactions[i].status = "SUCCESS"})

\* the block generateAndEmitBlock assembles from the random draws rnd
AssembleBlock(blks, blockNumber, rnd) ==
    LET transactions == generateTransactions(rnd.now, rnd.txs)
        stateChanges == generateStateChanges(transactions, rnd.txs)
        items        == BlockItems(transactions, stateChanges)
        hash         == RandomHex(blks)
        successCount == SuccessCount(transactions)
    IN  [ header |-> [ number       |-> blockNumber,
                       hash         |-> hash,
                       previousHash |-> PreviousHash(blks),
                       timestamp    |-> rnd.now,
                       itemCount    |-> Len(items) ],
          items  |-> items,
          proof  |-> [blockNumber |-> blockNumber, blockHash |-> hash, verified |-> TRUE],
          successfulTransactions |-> successCount,
          failedTransactions     |-> Len(transactions) - successCount ]

\* the random draws of one transaction / one block, from the value sets D
TxRands(D) ==
    [ payer : D.payers, recipient : D.recipients, node : D.nodes,
      amount : D.amounts, fee : D.fees, success : D.success, newValue : D.values ]

LastTime(blks) == IF Len(blks) > 0 THEN blks[Len(blks)].header.timestamp ELSE 0

BlockRands(D) ==
    [ now : {LastTime(blocks) + d : d \in D.delays},
      txs : [1..options.transactionsPerBlock -> TxRands(D)] ]

----------------------------------------------------------------------------
(* Events *)

NoEvent == [ch |-> "", type |-> "", blk |-> NoHash, idx |-> 0, num |-> 0]

\* a BlockStreamEvent on the 'streamEvent' channel
StreamEvent(type, blk, idx, num) ==
    [ch |-> "streamEvent", type |-> type, blk |-> blk, idx |-> idx, num |-> num]

\* an event of another channel
ChannelEvent(ch, blk, idx, num) ==
    [ch |-> ch, type |-> "", blk |-> blk, idx |-> idx, num |-> num]

\* the two events of item i of block b: BLOCK_ITEM, then the typed event
ItemEvents(b, i) ==
    << StreamEvent("BLOCK_ITEM", b.header.hash, i, b.header.number),
       ChannelEvent(b.items[i].kind, b.header.hash, i, 0) >>

RECURSIVE AllItemEvents(_, _)
AllItemEvents(b, i) ==
    IF i > Len(b.items) THEN <<>> ELSE ItemEvents(b, i) \o AllItemEvents(b, i + 1)

\* (mutant) the aggregated block event is emitted before BLOCK_END
EventsOfBlockFirst(b) ==
    << StreamEvent("BLOCK_START", b.header.hash, 0, b.header.number) >>
    \o AllItemEvents(b, 1)
    \o << ChannelEvent("block", b.header.hash, 0, 0),
          StreamEvent("BLOCK_END", b.proof.blockHash, 0, b.proof.blockNumber) >>

\* the emit calls of generateAndEmitBlock for block b, in program order
EventsOf(b) ==
    << StreamEvent("BLOCK_START", b.header.hash, 0, b.header.number) >>
    \o AllItemEvents(b, 1)
    \o << StreamEvent("BLOCK_END", b.proof.blockHash, 0, b.proof.blockNumber),
          ChannelEvent("block", b.header.hash, 0, 0) >>

ErrorEvent == ChannelEvent("error", NoHash, 0, 0)

\* (mutant) the STREAM_ERROR event reports the number after the one that
\* was to be produced
errorEventAhead(blockNumber) ==
    [ch |-> "streamEvent", type |-> "STREAM_ERROR", blk |-> NoHash, idx |-> 0,
     num |-> blockNumber + 1, recoverable |-> TRUE]

\* the errorEvent of the failure branch of generateAndEmitBlock
errorEvent(blockNumber) ==
    [ch |-> "streamEvent", type |-> "STREAM_ERROR", blk |-> NoHash, idx |-> 0,
     num |-> blockNumber, recoverable |-> TRUE]


----------------------------------------------------------------------------
(* MockBlockStream: call frames *)

\* this.intervalId = null
NoTimer == 0

\* Math.random() < failureRate, both in percent: the draws of Math.random()
RandomPercents == {0, 99}

Frame(op, pc, blk, idx) == [op |-> op, pc |-> pc, blk |-> blk, idx |-> idx]

Top  == stack[Len(stack)]
Rest == SubSeq(stack, 1, Len(stack) - 1)

\* the events of the current event-loop turn: a call made while no call is
\* in progress begins a new turn
Window == IF stack = <<>> THEN <<>> ELSE events

\* the timer object a setInterval call returns: one that is not armed
FreshTimer == CHOOSE t \in 1..(Cardinality(timers) + 1) : t \notin timers

StartsInProgress == Cardinality({i \in 1..Len(stack) : stack[i].op = "start"})

\* a public operation can be called from the event loop (empty stack) or
\* from a listener (the emit of the top frame), in a live process
Callable == ~crashed /\ (stack # <<>> => calls < MaxListenerCalls)

\* the count of the calls listeners made in this turn, after one more call
Called == IF stack = <<>> THEN 0 ELSE calls + 1

\* that count once stack' is known: it restarts when the turn ends
Counted == IF stack' = <<>> THEN 0 ELSE calls

----------------------------------------------------------------------------
(* MockBlockStream.generateAndEmitBlock *)

\* options.failureRate > 0 && Math.random() < options.failureRate
InjectFailure(r) == options.failureRate > 0 /\ r < options.failureRate

\* generateAndEmitBlock() up to its first emit, called from the frames stk;
\* evs are the events of the turn so far.  r and rnd are the random draws.
GenerateAndEmitBlock(stk, evs, r, rnd) ==
    IF InjectFailure(r)
    THEN /\ events' = Append(evs, errorEvent(currentBlockNumber))
         /\ stack' = Append(stk, Frame("gen", "fail1", 0, 0))
         /\ UNCHANGED <<blocks, currentBlockNumber>>
    ELSE /\ Len(blocks) < MaxBlocks
         /\ LET b == AssembleBlock(blocks, currentBlockNumber, rnd) IN
            /\ blocks' = Append(blocks, b)
            /\ currentBlockNumber' = currentBlockNumber + 1
            /\ events' = Append(evs, EventsOf(b)[1])
            /\ stack' = Append(stk, Frame("gen", "emit", Len(blocks) + 1, 1))

\* generateAndEmitBlock() returns to its caller, the top frame of stk
GenReturns(stk) ==
    LET caller == stk[Len(stk)] IN
    IF caller.op = "start"
    THEN \* start(): this.intervalId = setInterval(...)
         /\ intervalId' = FreshTimer
         /\ timers' = timers \cup {FreshTimer}
         /\ stack' = SubSeq(stk, 1, Len(stk) - 1)
         /\ UNCHANGED <<thrown, crashed>>
    ELSE \* the timer callback returns
         /\ stack' = SubSeq(stk, 1, Len(stk) - 1)
         /\ UNCHANGED <<intervalId, timers, thrown, crashed>>

\* an exception leaves generateAndEmitBlock() into its caller
GenEscapes(stk) ==
    LET caller == stk[Len(stk)] IN
    IF caller.op = "start"
    THEN \* the async start() rejects; setInterval is never reached
         /\ stack' = SubSeq(stk, 1, Len(stk) - 1)
         /\ thrown' = "Error"
         /\ UNCHANGED <<intervalId, timers, crashed>>
    ELSE \* uncaught exception in a timer callback: the process dies in it
         /\ stack' = stk
         /\ crashed' = TRUE
         /\ UNCHANGED <<intervalId, timers, thrown>>

\* the catch block of generateAndEmitBlock(): this.emit('error', err).
\* EventEmitter.emit('error') throws the error when no listener is registered.
\* the events of the turn once stack' is known: the turn ends, and its
\* events are dropped, when the last call in progress ends
Kept == IF stack' = <<>> THEN <<>> ELSE events

GenCatch ==
    IF errorListener
    THEN /\ events' = Append(events, ErrorEvent)
         /\ stack' = Append(Rest, Frame("gen", "catch", Top.blk, Top.idx))
         /\ UNCHANGED <<intervalId, timers, thrown, crashed>>
    ELSE /\ GenEscapes(Rest)
         /\ events' = Kept

----------------------------------------------------------------------------
(* MockBlockStream: public operations *)

\* (mutant) start() goes ahead on a running generator
StartAnyway(isRunning) == FALSE

\* start(): if (this.running) throw STREAM_ALREADY_RUNNING
AlreadyRunning(isRunning) == isRunning

\* start()
Start(r, rnd) ==
    /\ Callable
    /\ calls' = Called
    /\ Cardinality(timers) + StartsInProgress < MaxTimers
    /\ IF AlreadyRunning(running)
       THEN /\ thrown' = "STREAM_ALREADY_RUNNING"
            /\ events' = Window
            /\ UNCHANGED <<running, paused, blocks, currentBlockNumber, stack>>
       ELSE /\ running' = TRUE
            /\ paused' = FALSE
            /\ thrown' = "none"
            /\ GenerateAndEmitBlock(Append(stack, Frame("start", "gen", 0, 0)), Window, r, rnd)
    /\ UNCHANGED <<options, intervalId, timers, errorListener, crashed>>

\* stop()
Stop ==
    /\ Callable
    /\ calls' = Called
    /\ timers' = IF intervalId # NoTimer THEN timers \ {intervalId} ELSE timers
    /\ intervalId' = NoTimer
    /\ running' = FALSE
    /\ paused' = FALSE
    /\ events' = Append(Window, ChannelEvent("end", NoHash, 0, 0))
    /\ stack' = Append(stack, Frame("stop", "emit", 0, 0))
    /\ thrown' = "none"
    /\ UNCHANGED <<options, currentBlockNumber, blocks, errorListener, crashed>>

\* (mutant) pause() takes effect on a generator that is not running
PauseIgnoredWhenPaused(isRunning, isPaused) == isPaused

\* pause(): if (!this.running || this.paused) return
PauseIgnored(isRunning, isPaused) == ~isRunning \/ isPaused

\* resume(): if (!this.running || !this.paused) return
ResumeIgnored(isRunning, isPaused) == ~isRunning \/ ~isPaused

\* pause()
Pause ==
    /\ Callable
    /\ calls' = Called
    /\ thrown' = "none"
    /\ IF PauseIgnored(running, paused)
       THEN /\ events' = Window
            /\ UNCHANGED <<paused, stack>>
       ELSE /\ paused' = TRUE
            /\ events' = Append(Window, ChannelEvent("paused", NoHash, 0, 0))
            /\ stack' = Append(stack, Frame("pause", "emit", 0, 0))
    /\ UNCHANGED <<options, running, intervalId, timers, currentBlockNumber, blocks,
                   errorListener, crashed>>

\* resume()
Resume ==
    /\ Callable
    /\ calls' = Called
    /\ thrown' = "none"
    /\ IF ResumeIgnored(running, paused)
       THEN /\ events' = Window
            /\ UNCHANGED <<paused, stack>>
       ELSE /\ paused' = FALSE
            /\ events' = Append(Window, ChannelEvent("resumed", NoHash, 0, 0))
            /\ stack' = Append(stack, Frame("resume", "emit", 0, 0))
    /\ UNCHANGED <<options, running, intervalId, timers, currentBlockNumber, blocks,
                   errorListener, crashed>>

\* (mutant) seek() accepts every number
EveryNumberValid(blockNumber) == FALSE

\* seek(): if (blockNumber < 0) throw INVALID_BLOCK_NUMBER
InvalidBlockNumber(blockNumber) == blockNumber < 0

\* seek(blockNumber)
Seek(blockNumber) ==
    /\ Callable
    /\ calls' = Called
    /\ events' = Window
    /\ IF InvalidBlockNumber(blockNumber)
       THEN /\ thrown' = "INVALID_BLOCK_NUMBER"
            /\ UNCHANGED currentBlockNumber
       ELSE /\ thrown' = "none"
            /\ currentBlockNumber' = blockNumber
    /\ UNCHANGED <<options, running, paused, intervalId, timers, blocks,
                   errorListener, stack, crashed>>

\* (mutant) the timer callback emits a heartbeat whether paused or not
NeverGenerates(isPaused) == FALSE

\* the timer callback: if (!this.paused) generate, else heartbeat
TickGenerates(isPaused) == ~isPaused

\* the setInterval callback of start(); every armed timer runs it
Tick(r, rnd) ==
    /\ ~crashed
    /\ stack = <<>>
    /\ timers # {}
    /\ calls' = 0
    /\ thrown' = "none"
    /\ IF TickGenerates(paused)
       THEN GenerateAndEmitBlock(<<Frame("tick", "gen", 0, 0)>>, <<>>, r, rnd)
       ELSE /\ events' = <<ChannelEvent("heartbeat", NoHash, 0, currentBlockNumber - 1)>>
            /\ stack' = <<Frame("tick", "hb1", 0, currentBlockNumber - 1)>>
            /\ UNCHANGED <<blocks, currentBlockNumber>>
    /\ UNCHANGED <<options, running, paused, intervalId, timers, errorListener, crashed>>

----------------------------------------------------------------------------
(* TypedEventEmitter.emit: the listeners of the emit in progress *)

\* the listeners of the top frame's emit return; the frame runs to its next
\* emit, or to its end
ListenerReturn ==
    /\ ~crashed
    /\ stack # <<>>
    /\ CASE Top.op \in {"stop", "pause", "resume"} ->
              /\ stack' = Rest
              /\ events' = Kept
              /\ UNCHANGED <<intervalId, timers, thrown, crashed>>
         [] Top.op = "tick" /\ Top.pc = "hb1" ->
              /\ events' = Append(events, StreamEvent("STREAM_HEARTBEAT", NoHash, 0, Top.idx))
              /\ stack' = Append(Rest, Frame("tick", "hb2", 0, Top.idx))
              /\ UNCHANGED <<intervalId, timers, thrown, crashed>>
         [] Top.op = "tick" /\ Top.pc = "hb2" ->
              /\ stack' = Rest
              /\ events' = Kept
              /\ UNCHANGED <<intervalId, timers, thrown, crashed>>
         [] Top.op = "gen" /\ Top.pc = "emit" ->
              LET seq == EventsOf(blocks[Top.blk]) IN
              IF Top.idx < Len(seq)
              THEN /\ events' = Append(events, seq[Top.idx + 1])
                   /\ stack' = Append(Rest, Frame("gen", "emit", Top.blk, Top.idx + 1))
                   /\ UNCHANGED <<intervalId, timers, thrown, crashed>>
              ELSE /\ GenReturns(Rest)
                   /\ events' = Kept
         [] Top.op = "gen" /\ Top.pc = "fail1" ->
              \* this.emit('error', new Error(errorEvent.error)), inside the try
              IF errorListener
              THEN /\ events' = Append(events, ErrorEvent)
                   /\ stack' = Append(Rest, Frame("gen", "fail2", 0, 0))
                   /\ UNCHANGED <<intervalId, timers, thrown, crashed>>
              ELSE GenCatch
         [] Top.op = "gen" /\ Top.pc \in {"fail2", "catch"} ->
              /\ GenReturns(Rest)
              /\ events' = Kept
    /\ calls' = Counted
    /\ UNCHANGED <<options, running, paused, currentBlockNumber, blocks, errorListener>>

\* a listener of the top frame's emit throws
ListenerThrow ==
    /\ ~crashed
    /\ stack # <<>>
    /\ CASE Top.op \in {"stop", "pause", "resume"} ->
              \* stop() rejects; pause() and resume() throw to their caller
              /\ stack' = Rest
              /\ thrown' = "Error"
              /\ events' = Kept
              /\ UNCHANGED <<intervalId, timers, crashed>>
         [] Top.op = "tick" ->
              \* heartbeat listener: uncaught exception in the timer callback
              /\ stack' = stack
              /\ crashed' = TRUE
              /\ events' = Kept
              /\ UNCHANGED <<intervalId, timers, thrown>>
         [] Top.op = "gen" /\ Top.pc \in {"emit", "fail1", "fail2"} ->
              GenCatch
         [] Top.op = "gen" /\ Top.pc = "catch" ->
              /\ GenEscapes(Rest)
              /\ events' = Kept
    /\ calls' = Counted
    /\ UNCHANGED <<options, running, paused, currentBlockNumber, blocks, errorListener>>


----------------------------------------------------------------------------
(* QuerySimulator: the index.  Amounts are in units of 10^4 tinybars. *)

\* a JavaScript number k, or k + 1/2 when half
Num(k, half) == [n |-> k, half |-> half]

\* (mutant) every number is taken as a block number
AnyNumber(x) == TRUE

\* BlockNumberSchema: z.number().int().nonnegative()
BlockNumberSchema(x) == ~x.half /\ x.n >= 0

\* seedDefaultBalances(): the well-known system accounts
SeedDefaultBalances ==
    LET seeds == << <<2, 500000000>>, <<3, 10000000>>, <<4, 10000000>>,
                    <<5, 10000000>>, <<98, 50000000>>, <<100, 5000000>>,
                    <<800, 20000000>> >>
    IN  [ a \in {AccountId(seeds[i][1]) : i \in 1..Len(seeds)} |->
            LET i == CHOOSE j \in 1..Len(seeds) : AccountId(seeds[j][1]) = a
            IN  seeds[i][2] ]

\* randomInt(1_000_000_000, 100_000_000_000): the draws of seedBalance explored
SeedBalanceDraws == {100000, 10000000}

\* Map.get(k) ?? fallback
MapGet(m, k, fallback) == IF k \in DOMAIN m THEN m[k] ELSE fallback

\* Map.set(k, v)
MapSet(m, k, v) == [x \in DOMAIN m \cup {k} |-> IF x = k THEN v ELSE m[x]]

\* this.txIndex.set(tx.transactionId, tx): the map keeps its entries in
\* insertion order, and a key that is set again keeps its place
TxIndexSet(idx, tx) ==
    IF \E i \in 1..Len(idx) : idx[i].transactionId = tx.transactionId
    THEN [i \in 1..Len(idx) |->
            IF idx[i].transactionId = tx.transactionId THEN tx ELSE idx[i]]
    ELSE Append(idx, tx)

\* this.txIndex.get(transactionId): the entries with that key (at most one)
TxIndexGet(idx, transactionId) ==
    SelectSeq(idx, LAMBDA tx : tx.transactionId = transactionId)

\* the index as one value
Index ==
    [tx |-> txIndex, bal |-> balanceIndex, st |-> stateIndex, last |-> lastIndexedBlock]

\* the loop over tx.transfers in refreshIndexes()
RECURSIVE foldTransfers(_, _)
foldTransfers(bal, transfers) ==
    IF transfers = <<>> THEN bal
    ELSE LET transfer == Head(transfers)
             current  == MapGet(bal, transfer.accountId, 0)
         IN  foldTransfers(MapSet(bal, transfer.accountId, current + transfer.amount),
                           Tail(transfers))

\* the body of the loop over block.items in refreshIndexes()
foldItem(ix, item) ==
    IF item.kind = "transaction"
    THEN [ix EXCEPT !.tx  = TxIndexSet(ix.tx, item.data),
                    !.bal = foldTransfers(ix.bal, item.data.transfers)]
    ELSE LET change   == item.data
             existing == MapGet(ix.st, change.entityId, <<>>)
         IN  [ix EXCEPT !.st = MapSet(ix.st, change.entityId, Append(existing, change))]

RECURSIVE foldItems(_, _)
foldItems(ix, items) ==
    IF items = <<>> THEN ix ELSE foldItems(foldItem(ix, Head(items)), Tail(items))

\* (mutant) no block is ever taken as indexed
NeverIndexed(block, last) == FALSE

\* if (block.header.number <= this.lastIndexedBlock) continue
AlreadyIndexed(block, last) == block.header.number <= last

\* the loop over the log in refreshIndexes()
RECURSIVE refreshFrom(_, _)
refreshFrom(ix, blks) ==
    IF blks = <<>> THEN ix
    ELSE LET block == Head(blks) IN
         IF AlreadyIndexed(block, ix.last)
         THEN refreshFrom(ix, Tail(blks))
         ELSE refreshFrom([foldItems(ix, block.items) EXCEPT !.last = block.header.number],
                          Tail(blks))

\* refreshIndexes(): the index once the log has been caught up with
refreshIndexes == refreshFrom(Index, blocks)

----------------------------------------------------------------------------
(* QuerySimulator: the queries.  Each yields the index it leaves behind and *)
(* the Result it returns.                                                   *)

\* ok(value) and err(error) of the Result type; an error is its code and details
ok(value) == [ok |-> TRUE, code |-> "none", value |-> value]
err(code, details) == [ok |-> FALSE, code |-> code, value |-> details]

\* atBlockNumber of a balance when the log is empty: undefined
NoBlockNumber == -1

\* (mutant) blocks.findLast(b => b.header.number === blockNumber)
StreamFindLast(blks, blockNumber) ==
    LET found == SelectSeq(blks, LAMBDA b : ~blockNumber.half
                                            /\ b.header.number = blockNumber.n)
    IN  IF found = <<>> THEN <<>> ELSE <<found[Len(found)]>>

\* this.stream.getBlock(blockNumber): blocks.find(b => b.header.number === blockNumber)
StreamGetBlock(blks, blockNumber) ==
    SelectSeq(blks, LAMBDA b : ~blockNumber.half /\ b.header.number = blockNumber.n)

\* getBlock(blockNumber)
getBlock(blockNumber) ==
    IF ~BlockNumberSchema(blockNumber)
    THEN [ix |-> Index, result |-> err("INVALID_BLOCK_NUMBER", <<>>)]
    ELSE LET block == StreamGetBlock(blocks, blockNumber) IN
         [ ix     |-> refreshIndexes,
           result |-> IF block = <<>>
                      THEN err("QUERY_FAILED", [blockNumber |-> blockNumber,
                                                availableBlocks |-> Len(blocks)])
                      ELSE ok(block[1]) ]

\* getTransaction(transactionId)
getTransaction(transactionId) ==
    IF ~TransactionIdSchema(transactionId)
    THEN [ix |-> Index, result |-> err("QUERY_FAILED", <<>>)]
    ELSE LET ix == refreshIndexes
             tx == TxIndexGet(ix.tx, transactionId)
         IN  [ ix     |-> ix,
               result |-> IF tx = <<>>
                          THEN err("QUERY_FAILED", [transactionId |-> transactionId,
                                                    totalIndexed |-> Len(ix.tx)])
                          ELSE ok(tx[1]) ]

\* getStateProof(entityId); the proof's clock and random fields (timestamp,
\* merklePath, stateRootHash) are not represented
getStateProof(entityId) ==
    IF ~AccountIdSchema(entityId)
    THEN [ix |-> Index, result |-> err("QUERY_FAILED", <<>>)]
    ELSE LET ix         == refreshIndexes
             changes    == MapGet(ix.st, entityId, <<>>)
             stateValue == IF changes # <<>>
                           THEN changes[Len(changes)].newValue
                           ELSE NumToStr(MapGet(ix.bal, entityId, 0))
         IN  [ ix     |-> ix,
               result |-> ok([ entityId      |-> entityId,
                               stateValue    |-> stateValue,
                               atBlockNumber |-> IF blocks # <<>>
                                                 THEN blocks[Len(blocks)].header.number
                                                 ELSE 0,
                               verified      |-> TRUE ]) ]

\* (mutant) no balance is taken as stored
NeverStored(bal, accountId) == FALSE

\* this.balanceIndex.get(accountId) ?? ...: the map has the account
HasBalance(bal, accountId) == accountId \in DOMAIN bal

\* (mutant) the balance is reported as the map holds it
AsHeld(tinybars) == tinybars

\* Math.max(0, tinybars)
NonNegative(tinybars) == IF tinybars > 0 THEN tinybars ELSE 0

\* getAccountBalance(accountId); seed is the draw of seedBalance(accountId),
\* which stores it when the account has no balance yet
getAccountBalance(accountId, seed) ==
    IF ~AccountIdSchema(accountId)
    THEN [ix |-> Index, result |-> err("QUERY_FAILED", <<>>)]
    ELSE LET ix       == refreshIndexes
             known    == HasBalance(ix.bal, accountId)
             tinybars == IF known THEN ix.bal[accountId] ELSE seed
         IN  [ ix     |-> IF known THEN ix
                          ELSE [ix EXCEPT !.bal = MapSet(ix.bal, accountId, seed)],
               result |-> ok([ accountId       |-> accountId,
                               balanceTinybars |-> NonNegative(tinybars),
                               atBlockNumber   |-> IF blocks # <<>>
                                                   THEN blocks[Len(blocks)].header.number
                                                   ELSE NoBlockNumber ]) ]

\* getLatestBlock()
getLatestBlock ==
    [ ix     |-> refreshIndexes,
      result |-> IF Len(blocks) = 0 THEN err("QUERY_FAILED", <<>>)
                 ELSE ok(blocks[Len(blocks)]) ]

\* getBlockRange(from, to)
getBlockRange(from, to) ==
    IF from < 0 \/ to < from
    THEN [ix |-> Index, result |-> err("INVALID_BLOCK_NUMBER", <<>>)]
    ELSE [ ix     |-> refreshIndexes,
           result |-> ok(SelectSeq(blocks, LAMBDA b : b.header.number >= from
                                                       /\ b.header.number <= to)) ]

\* getTransactionsByAccount(payerAccountId)
getTransactionsByAccount(payerAccountId) ==
    IF ~AccountIdSchema(payerAccountId)
    THEN [ix |-> Index, result |-> err("QUERY_FAILED", <<>>)]
    ELSE LET ix == refreshIndexes IN
         [ ix     |-> ix,
           result |-> ok(SelectSeq(ix.tx, LAMBDA tx : tx.payerAccountId = payerAccountId)) ]

\* getStats(): a plain object, here as a success
getStats ==
    LET ix == refreshIndexes IN
    [ ix     |-> ix,
      result |-> ok([ totalBlocks       |-> Len(blocks),
                      totalTransactions |-> Len(ix.tx),
                      totalAccounts     |-> Cardinality(DOMAIN ix.bal),
                      latestBlockNumber |-> IF Len(blocks) > 0
                                            THEN blocks[Len(blocks)].header.number
                                            ELSE -1 ]) ]

\* qresult when the latest step was not a query
NoResult == [op |-> "none", input |-> <<>>, ok |-> FALSE, code |-> "none", value |-> <<>>]

\* a query `op` on `input`, made from the event loop, runs to completion (the
\* queries are synchronous and emit nothing); out is what it yields
Query(op, input, out) ==
    /\ ~crashed
    /\ stack = <<>>
    /\ txIndex' = out.ix.tx
    /\ balanceIndex' = out.ix.bal
    /\ stateIndex' = out.ix.st
    /\ lastIndexedBlock' = out.ix.last
    /\ qresult' = [ op |-> op, input |-> input, ok |-> out.result.ok,
                    code |-> out.result.code, value |-> out.result.value ]
    /\ UNCHANGED <<genVars, routerVars, obsVars>>

----------------------------------------------------------------------------
(* MirrorNodeFallback.  The listeners of the router's events return without *)
(* calling the router.                                                      *)

\* FallbackStrategy
FallbackStrategy == {"auto", "manual", "disabled"}

\* rresult while the latest step resolved no router query
Unresolved == [ok |-> FALSE, code |-> "none", value |-> <<>>]

\* rlog when the latest step was not a step of the router
NoStep ==
    [step |-> "none", op |-> "none", input |-> <<>>, events |-> <<>>, answer |-> <<>>]

\* a step of the router; answer is what the fetch of a remote call settled
\* with when the step is the completion of one
RouterStep(step, op, input, emitted) ==
    [step |-> step, op |-> op, input |-> input, events |-> emitted, answer |-> <<>>]

\* (mutant) the primary is called whenever it is configured
AlwaysPrimary(primary, active) == primary

\* (mutant) the primary is never called
NeverPrimary(primary, active) == FALSE

\* if (this.primary && !this.fallbackActive)
UsePrimary(primary, active) == primary /\ ~active

\* (mutant) a result of the primary is never returned
NeverServes(result) == FALSE

\* if (result.ok) return result
PrimaryServes(result) == result.ok

\* (mutant) the fallback is activated under every strategy
activateAnyway(active) == [active |-> TRUE, events |-> <<"fallbackActivated">>]

\* activateFallback(reason): the flag it leaves and the events it emits
activateFallback(active) ==
    IF strategy = "disabled" THEN [active |-> active, events |-> <<>>]
    ELSE IF ~active THEN [active |-> TRUE, events |-> <<"fallbackActivated">>]
    ELSE [active |-> active, events |-> <<>>]

\* the id of a remote call that is not in flight
FreshCall == CHOOSE c \in 1..(Cardinality(inflight) + 1) : \A call \in inflight : call.id # c

\* getBlock / getTransaction / getAccountBalance / getStateProof of the router,
\* up to its return or to the await of mirrorGet's fetch.  out is what the
\* same query yields on the primary QuerySimulator.
RouterQuery(op, input, out) ==
    /\ ~crashed
    /\ stack = <<>>
    /\ LET primaryCalled == UsePrimary(hasPrimary, fallbackActive)
           served        == primaryCalled /\ PrimaryServes(out.result)
           activated     == IF primaryCalled /\ ~served
                            THEN activateFallback(fallbackActive)
                            ELSE [active |-> fallbackActive, events |-> <<>>]
       IN  /\ IF primaryCalled
              THEN /\ txIndex' = out.ix.tx
                   /\ balanceIndex' = out.ix.bal
                   /\ stateIndex' = out.ix.st
                   /\ lastIndexedBlock' = out.ix.last
                   /\ qresult' = [ op |-> op, input |-> input, ok |-> out.result.ok,
                                   code |-> out.result.code, value |-> out.result.value ]
              ELSE /\ UNCHANGED <<txIndex, balanceIndex, stateIndex, lastIndexedBlock>>
                   /\ qresult' = NoResult
           /\ fallbackActive' = activated.active
           /\ rlog' = RouterStep("query", op, input, activated.events)
           /\ IF served
              THEN /\ rresult' = out.result
                   /\ UNCHANGED <<inflight, timeouts>>
              ELSE IF strategy = "disabled"
              THEN /\ rresult' = err("FALLBACK_DISABLED", <<>>)
                   /\ UNCHANGED <<inflight, timeouts>>
              ELSE \* mirrorGet arms its timer and awaits fetch: the query
                   \* is suspended
                   /\ Cardinality(inflight) < MaxInflight
                   /\ inflight' = inflight \cup {[id |-> FreshCall, op |-> op, input |-> input]}
                   /\ timeouts' = timeouts \cup {FreshCall}
                   /\ rresult' = Unresolved
    /\ aborted' = {}
    /\ UNCHANGED <<genVars, obsVars, strategy, hasPrimary>>

\* (mutant) every reset announces a deactivation
deactivateAnyway(active) == <<"fallbackDeactivated">>

\* resetFallback(): the events it emits
deactivateFallback(active) == IF active THEN <<"fallbackDeactivated">> ELSE <<>>

\* resetFallback()
ResetFallback ==
    /\ ~crashed
    /\ stack = <<>>
    /\ fallbackActive' = FALSE
    /\ rlog' = RouterStep("reset", "none", <<>>, deactivateFallback(fallbackActive))
    /\ rresult' = Unresolved
    /\ qresult' = NoResult
    /\ aborted' = {}
    /\ UNCHANGED <<genVars, obsVars, txIndex, balanceIndex, stateIndex, lastIndexedBlock,
                   strategy, hasPrimary, inflight, timeouts>>

\* transaction_id.split('-')[0]: the characters before the first dash
RECURSIVE BeforeDash(_)
BeforeDash(s) ==
    IF s = <<>> \/ Head(s) = "-" THEN <<>> ELSE <<Head(s)>> \o BeforeDash(Tail(s))

\* a JSON value of a body: its type and what it holds (for a string, the
\* number its characters spell)
Json(type, value) == [type |-> type, value |-> value]

\* a timestamp string of a body: whether parseFloat reads a number from it,
\* and the seconds it reads
Timestamp(numeric, seconds) == [numeric |-> numeric, seconds |-> seconds]

\* the 2xx bodies that pass the schema of the query
MirrorData(op) ==
    CASE op = "getBlock" ->
           { [number |-> 7, hash |-> 9, previous_hash |-> 8,
              from |-> Timestamp(TRUE, 1), count |-> Json("number", c)] : c \in {0, 2} }
           \cup { [number |-> 7, hash |-> 9, previous_hash |-> 8,
                   from |-> Timestamp(FALSE, 0), count |-> Json("number", 0)] }
      [] op = "getTransaction" ->
           { <<>>,
             << [ transaction_id |-> AccountId(100) \o <<"-", "1", "-", "0">>,
                  result |-> "SUCCESS", charged_tx_fee |-> Json("number", 5) ] >> }
      [] OTHER ->
           { [account |-> AccountId(100), balance |-> Json("number", 42)] }

\* 2xx bodies that fail it: a string where the schema wants a number
InvalidData(op) ==
    CASE op = "getBlock" ->
           { [number |-> 7, hash |-> 9, previous_hash |-> 8,
              from |-> Timestamp(TRUE, 1), count |-> Json("string", 2)] }
      [] op = "getTransaction" ->
           { << [ transaction_id |-> AccountId(100) \o <<"-", "1", "-", "0">>,
                  result |-> "SUCCESS", charged_tx_fee |-> Json("string", 5) ] >> }
      [] OTHER ->
           { [account |-> AccountId(100), balance |-> Json("string", 42)] }

\* the outcomes of fetch(url): a 2xx response with its body, a non-2xx
\* status, a network failure, the abort at timeoutMs
MirrorResponses(op) ==
    { [kind |-> k, data |-> <<>>] : k \in {"http", "network", "timeout"} }
    \cup { [kind |-> "ok", data |-> d] : d \in MirrorData(op) \cup InvalidData(op) }

\* (mutant) every body is taken as it comes
AnyBody(op, data) == TRUE

\* schema.parse(json): MirrorBlockSchema, { transactions: MirrorTransactionSchema[] },
\* MirrorAccountSchema
MirrorSchema(op, data) ==
    CASE op = "getBlock" -> data.count.type = "number"
      [] op = "getTransaction" ->
           \A i \in 1..Len(data) : data[i].charged_tx_fee.type = "number"
      [] OTHER -> data.balance.type = "number"

\* mirrorGet(endpoint, schema) from the answer on: the events it emits, the
\* error it throws, the data it returns
mirrorGet(op, response) ==
    CASE response.kind = "ok" /\ MirrorSchema(op, response.data) ->
           [events |-> <<"mirrorQuery">>, thrown |-> "none", data |-> response.data]
      [] response.kind = "http" ->
           [events |-> <<>>, thrown |-> "MIRROR_NODE_UNAVAILABLE", data |-> <<>>]
      [] OTHER ->
           [events |-> <<"mirrorError">>, thrown |-> "MIRROR_NODE_UNAVAILABLE", data |-> <<>>]

\* the Result a router query builds from the data mirrorGet returned
MapRemote(op, data) ==
    CASE op = "getBlock" ->
           \* new Date(NaN).toISOString() throws a RangeError, which the
           \* catch of the query wraps
           IF ~data.from.numeric THEN err("FALLBACK_FAILED", <<>>)
           ELSE
           ok([ header |-> [ number       |-> data.number,
                             hash         |-> data.hash,
                             previousHash |-> data.previous_hash,
                             timestamp    |-> data.from.seconds * 1000,
                             itemCount    |-> data.count.value ],
                items  |-> <<>>,
                successfulTransactions |-> data.count.value,
                failedTransactions     |-> 0 ])
      [] op = "getTransaction" ->
           IF data = <<>> THEN err("QUERY_FAILED", <<>>)
           ELSE ok([ transactionId  |-> data[1].transaction_id,
                     payerAccountId |-> BeforeDash(data[1].transaction_id),
                     status         |-> IF data[1].result = "SUCCESS"
                                        THEN "SUCCESS" ELSE "UNKNOWN",
                     fee            |-> data[1].charged_tx_fee.value ])
      [] op = "getAccountBalance" ->
           ok([accountId |-> data.account, balanceTinybars |-> data.balance.value])
      [] OTHER ->
           ok([ entityId      |-> data.account,
                stateValue    |-> NumToStr(data.balance.value),
                atBlockNumber |-> 0,
                verified      |-> FALSE ])

\* (mutant) the timer stays armed
keepTimeout(armed, id) == armed

\* finally { clearTimeout(timeout) }
clearTimeout(armed, id) == armed \ {id}

\* the fetch of a suspended router query settles and the query runs to its
\* return; wrapError passes the HieroBridgeError of mirrorGet through.  The
\* fetch is aborted when the timer of its own call fires, which takes an
\* armed timer; a timer that fired is no longer armed.
RemoteCompletes(call, response) ==
    /\ ~crashed
    /\ stack = <<>>
    /\ call \in inflight
    /\ response.kind = "timeout" => call.id \in timeouts
    /\ aborted' = IF response.kind = "timeout" THEN {call.id} ELSE {}
    /\ timeouts' = clearTimeout(IF response.kind = "timeout"
                                THEN timeouts \ {call.id} ELSE timeouts, call.id)
    /\ LET got == mirrorGet(call.op, response) IN
       /\ rlog' = [RouterStep("remote", call.op, call.input, got.events)
                     EXCEPT !.answer = response]
       /\ rresult' = IF got.thrown = "none" THEN MapRemote(call.op, got.data)
                     ELSE err(got.thrown, <<>>)
    /\ inflight' = inflight \ {call}
    /\ qresult' = NoResult
    /\ UNCHANGED <<genVars, obsVars, txIndex, balanceIndex, stateIndex, lastIndexedBlock,
                   strategy, hasPrimary, fallbackActive>>

----------------------------------------------------------------------------
(* Construction *)

\* SimulatorOptionsSchema.parse(options): the configurations explored
SimulatorOptions ==
    [ failureRate : {0, 50},
      transactionsPerBlock : 1..MaxTxPerBlock,
      enableStateProofs : {FALSE},
      startBlockNumber : {1} ]

\* new MockBlockStream(options), with or without an 'error' listener
StreamInitOver(configurations) ==
    /\ options \in configurations
    /\ running = FALSE
    /\ paused = FALSE
    /\ intervalId = NoTimer
    /\ timers = {}
    /\ currentBlockNumber = options.startBlockNumber
    /\ blocks = <<>>
    /\ errorListener \in BOOLEAN
    /\ stack = <<>>
    /\ events = <<>>
    /\ thrown = "none"
    /\ calls = 0
    /\ crashed = FALSE

StreamInit == StreamInitOver(SimulatorOptions)

\* new QuerySimulator({ stream })
IndexInit ==
    /\ txIndex = <<>>
    /\ balanceIndex = SeedDefaultBalances
    /\ stateIndex = <<>>
    /\ lastIndexedBlock = -1
    /\ qresult = NoResult

\* no pause() has taken effect in this run of the generator
NoMark ==
    [phase |-> "none", len |-> 0, beat |-> FALSE, sought |-> NoBlockNumber,
     before |-> FALSE, between |-> FALSE, after |-> FALSE]

\* new MirrorNodeFallback(config)
RouterInit ==
    /\ strategy \in FallbackStrategy
    /\ hasPrimary \in BOOLEAN
    /\ fallbackActive = FALSE
    /\ inflight = {}
    /\ timeouts = {}
    /\ aborted = {}
    /\ rlog = NoStep
    /\ rresult = Unresolved

----------------------------------------------------------------------------
(* The generator with its listeners *)

\* the values the random helpers draw from in the generator's specification
StreamDraws ==
    [ payers |-> {100}, recipients |-> {200}, nodes |-> {3}, amounts |-> {100},
      fees |-> {5}, success |-> BOOLEAN, values |-> {7}, delays |-> {2000} ]

\* the generator and the index, next to a router of the default strategy
Init ==
    StreamInit /\ IndexInit /\ RouterInit /\ mark = NoMark /\ strategy = "auto" /\ hasPrimary

\* a step of the generator alone
StreamOnly(A) == A /\ UNCHANGED <<indexVars, routerVars, obsVars>>

Next ==
    \/ \E r \in RandomPercents, rnd \in BlockRands(StreamDraws) : StreamOnly(Start(r, rnd))
    \/ \E r \in RandomPercents, rnd \in BlockRands(StreamDraws) : StreamOnly(Tick(r, rnd))
    \/ StreamOnly(Stop)
    \/ StreamOnly(Pause)
    \/ StreamOnly(Resume)
    \/ \E n \in -1..MaxSeek : StreamOnly(Seek(n))
    \/ StreamOnly(ListenerReturn)
    \/ StreamOnly(ListenerThrow)

Spec == Init /\ [][Next]_vars


\* the runs in which seek() is never called
NextNoSeek ==
    \/ \E r \in RandomPercents, rnd \in BlockRands(StreamDraws) : StreamOnly(Start(r, rnd))
    \/ \E r \in RandomPercents, rnd \in BlockRands(StreamDraws) : StreamOnly(Tick(r, rnd))
    \/ StreamOnly(Stop)
    \/ StreamOnly(Pause)
    \/ StreamOnly(Resume)
    \/ StreamOnly(ListenerReturn)
    \/ StreamOnly(ListenerThrow)

SpecNoSeek == Init /\ [][NextNoSeek]_vars

----------------------------------------------------------------------------
(* The generator with the query index *)

\* the inputs of the queries explored
BlockNumbers == {Num(-1, FALSE), Num(0, TRUE), Num(1, FALSE), Num(2, FALSE)}

AccountIds == {AccountId(100), AccountId(9), <<"0", ".", "0">>}

LoggedTransactionIds ==
    { blocks[i].items[j].data.transactionId :
        <<i, j>> \in { <<i, j>> \in (1..Len(blocks)) \X (1..(2 * MaxTxPerBlock + 2)) :
                       /\ j <= Len(blocks[i].items)
                       /\ blocks[i].items[j].kind = "transaction" } }

TransactionIds ==
    LoggedTransactionIds \cup {makeTransactionId(AccountId(100), 1), AccountId(100)}

BlockRanges == {<<-1, 0>>, <<1, 0>>, <<0, 2>>, <<1, 1>>}

\* a step of the generator while a QuerySimulator is attached to it
Indexed(A) ==
    /\ A
    /\ qresult' = NoResult
    /\ UNCHANGED <<txIndex, balanceIndex, stateIndex, lastIndexedBlock, routerVars, obsVars>>

\* an operation called from the event loop, not from a listener
FromLoop(A) == stack = <<>> /\ Indexed(A)

NextIndex ==
    \/ \E r \in RandomPercents, rnd \in BlockRands(StreamDraws) : FromLoop(Start(r, rnd))
    \/ \E r \in RandomPercents, rnd \in BlockRands(StreamDraws) : Indexed(Tick(r, rnd))
    \/ FromLoop(Stop)
    \/ FromLoop(Pause)
    \/ FromLoop(Resume)
    \/ \E n \in -1..MaxSeek : FromLoop(Seek(n))
    \/ Indexed(ListenerReturn)
    \/ \E x \in BlockNumbers : Query("getBlock", x, getBlock(x))
    \/ \E id \in TransactionIds : Query("getTransaction", id, getTransaction(id))
    \/ \E id \in AccountIds : Query("getStateProof", id, getStateProof(id))
    \/ \E id \in AccountIds, seed \in SeedBalanceDraws :
          Query("getAccountBalance", id, getAccountBalance(id, seed))
    \/ Query("getLatestBlock", <<>>, getLatestBlock)
    \/ \E range \in BlockRanges :
          Query("getBlockRange", range, getBlockRange(range[1], range[2]))
    \/ \E id \in AccountIds :
          Query("getTransactionsByAccount", id, getTransactionsByAccount(id))
    \/ Query("getStats", <<>>, getStats)

\* the index is explored over a generator that injects no failures and whose
\* listeners do not throw
InitIndex == Init /\ errorListener /\ options.failureRate = 0

SpecIndex == InitIndex /\ [][NextIndex]_vars

----------------------------------------------------------------------------
(* The generator with the balance and state queries of the index *)

\* a well-known account, one no transfer names, the payer of the generated
\* transactions, and a malformed id
BalanceAccountIds == {AccountId(100), AccountId(9), AccountId(200), <<"0", ".", "0">>}

\* the values the random helpers draw from next to these queries: the payer
\* is an account without a default balance, the recipient one with
BalanceDraws ==
    [ payers |-> {200}, recipients |-> {100}, nodes |-> {3}, amounts |-> {100},
      fees |-> {5}, success |-> BOOLEAN, values |-> {7}, delays |-> {2000} ]

NextBalance ==
    \/ \E rnd \in BlockRands(BalanceDraws) : FromLoop(Start(99, rnd))
    \/ \E rnd \in BlockRands(BalanceDraws) : Indexed(Tick(99, rnd))
    \/ \E n \in 0..MaxSeek : FromLoop(Seek(n))
    \/ Indexed(ListenerReturn)
    \/ \E id \in BalanceAccountIds : Query("getStateProof", id, getStateProof(id))
    \/ \E id \in BalanceAccountIds, seed \in SeedBalanceDraws :
          Query("getAccountBalance", id, getAccountBalance(id, seed))

SpecBalance == InitIndex /\ [][NextBalance]_vars

----------------------------------------------------------------------------
(* The router over a QuerySimulator and its generator *)

\* the inputs of the router's queries explored: the primary answers block 1
\* and the first transaction of the log once they are generated, and fails
\* before; it answers a well-formed account id, and fails on a malformed one
RouterBlockNumbers == {Num(1, FALSE)}

RouterTransactionIds == {makeTransactionId(AccountId(100), 2000)}

RouterAccountIds == {AccountId(100), <<"0", ".", "0">>}

\* a step of the generator while the router is in use
Routed(A) ==
    /\ A
    /\ qresult' = NoResult
    /\ rlog' = NoStep
    /\ rresult' = Unresolved
    /\ aborted' = {}
    /\ UNCHANGED <<txIndex, balanceIndex, stateIndex, lastIndexedBlock,
                   strategy, hasPrimary, fallbackActive, inflight, timeouts, obsVars>>

\* every strategy, with and without a primary, over a generator that
\* injects no failures
InitRouter ==
    /\ StreamInit /\ IndexInit /\ RouterInit /\ mark = NoMark
    /\ errorListener /\ options.failureRate = 0

NextRouter ==
    \/ \E r \in RandomPercents, rnd \in BlockRands(StreamDraws) :
          stack = <<>> /\ Routed(Start(r, rnd))
    \/ \E r \in RandomPercents, rnd \in BlockRands(StreamDraws) : Routed(Tick(r, rnd))
    \/ Routed(ListenerReturn)
    \/ \E x \in RouterBlockNumbers : RouterQuery("getBlock", x, getBlock(x))
    \/ \E id \in RouterTransactionIds : RouterQuery("getTransaction", id, getTransaction(id))
    \/ \E id \in RouterAccountIds, seed \in SeedBalanceDraws :
          RouterQuery("getAccountBalance", id, getAccountBalance(id, seed))
    \/ \E id \in RouterAccountIds : RouterQuery("getStateProof", id, getStateProof(id))
    \/ \E call \in inflight : \E response \in MirrorResponses(call.op) :
          RemoteCompletes(call, response)
    \/ ResetFallback

SpecRouter == InitRouter /\ [][NextRouter]_vars

----------------------------------------------------------------------------
(* The router under strategy auto whose resetFallback() is never called. *)
(* Listeners return, callers keep querying, and every fetch settles: by  *)
(* its answer, by a network failure, or by the abort at timeoutMs.       *)

InitNoReset == InitRouter /\ strategy = "auto" /\ hasPrimary

BlockQuery == \E x \in RouterBlockNumbers : RouterQuery("getBlock", x, getBlock(x))

FetchSettles ==
    \E call \in inflight : \E response \in MirrorResponses(call.op) :
        RemoteCompletes(call, response)

NextNoReset ==
    \/ \E r \in RandomPercents, rnd \in BlockRands(StreamDraws) :
          stack = <<>> /\ Routed(Start(r, rnd))
    \/ \E r \in RandomPercents, rnd \in BlockRands(StreamDraws) : Routed(Tick(r, rnd))
    \/ Routed(ListenerReturn)
    \/ BlockQuery
    \/ \E id \in RouterAccountIds, seed \in SeedBalanceDraws :
          RouterQuery("getAccountBalance", id, getAccountBalance(id, seed))
    \/ FetchSettles

SpecNoReset ==
    /\ InitNoReset
    /\ [][NextNoReset]_vars
    /\ WF_vars(Routed(ListenerReturn))
    /\ WF_vars(BlockQuery)
    /\ WF_vars(FetchSettles)

----------------------------------------------------------------------------
(* The router whose listeners return and whose timers fire: the timer of *)
(* a call that stays in flight fires after timeoutMs.                    *)

\* setTimeout(() => controller.abort(), this.timeoutMs) of the call id fires
Expires(id) ==
    \E call \in inflight :
        call.id = id /\ RemoteCompletes(call, [kind |-> "timeout", data |-> <<>>])

NextTimeout ==
    \/ \E rnd \in BlockRands(StreamDraws) : stack = <<>> /\ Routed(Start(99, rnd))
    \/ Routed(ListenerReturn)
    \/ BlockQuery
    \/ \E id \in RouterAccountIds : RouterQuery("getStateProof", id, getStateProof(id))
    \/ FetchSettles
    \/ ResetFallback

SpecTimeout ==
    /\ InitRouter
    /\ [][NextTimeout]_vars
    /\ WF_vars(Routed(ListenerReturn))
    /\ \A id \in 1..MaxInflight : WF_vars(Expires(id))

----------------------------------------------------------------------------
(* Claims about the block generator *)

\* C1 (SpecNoSeek): in a run without seek, every block of the log after the
\* first has the number of its predecessor plus 1 and its predecessor's hash
\* as previousHash; the first block has an empty previousHash.
C1_ChainLinked ==
    \A i \in 1..Len(blocks) :
        IF i = 1
        THEN blocks[i].header.previousHash = NoHash
        ELSE /\ blocks[i].header.number = blocks[i - 1].header.number + 1
             /\ blocks[i].header.previousHash = blocks[i - 1].header.hash

\* a log of two blocks, produced in a run with an injected failure, while the
\* generator is paused
C1_Witness ==
    /\ Len(blocks) >= 2
    /\ paused
    /\ options.failureRate > 0

\* the events of the turn that concern the block with hash h
BlockEvents(h) == SelectSeq(events, LAMBDA e : e.blk = h)

\* event e is what the k-th event of block b has to be: BLOCK_START, then
\* for item i the BLOCK_ITEM event (2i) and its typed event (2i+1), then
\* BLOCK_END and the aggregated block event
OrderedAt(b, k, e) ==
    LET n == Len(b.items) IN
    CASE k = 1 ->
           e.ch = "streamEvent" /\ e.type = "BLOCK_START" /\ e.num = b.header.number
      [] k > 1 /\ k <= 2 * n + 1 /\ k % 2 = 0 ->
           e.ch = "streamEvent" /\ e.type = "BLOCK_ITEM" /\ e.idx = k \div 2
           /\ e.num = b.header.number
      [] k > 1 /\ k <= 2 * n + 1 /\ k % 2 = 1 ->
           e.ch = b.items[k \div 2].kind /\ e.idx = k \div 2
           /\ e.ch \in {"transaction", "stateChange"}
      [] k = 2 * n + 2 ->
           e.ch = "streamEvent" /\ e.type = "BLOCK_END" /\ e.num = b.header.number
      [] k = 2 * n + 3 ->
           e.ch = "block"
      [] OTHER -> FALSE

\* what has been emitted for each block is an initial part of its sequence,
\* and generateAndEmitBlock suspended in its k-th emit has emitted k events
C2_Ordered ==
    /\ \A i \in 1..Len(blocks) :
          LET es == BlockEvents(blocks[i].header.hash) IN
          \A k \in 1..Len(es) : OrderedAt(blocks[i], k, es[k])
    /\ \A j \in 1..Len(stack) :
          (stack[j].op = "gen" /\ stack[j].pc = "emit") =>
              Len(BlockEvents(blocks[stack[j].blk].header.hash)) = stack[j].idx

\* generateAndEmitBlock returns normally to its caller (start() then arms a
\* timer, a timer callback then ends without an uncaught exception)
GenEndsNormally ==
    /\ stack # <<>> /\ Top.op = "gen" /\ Top.pc = "emit"
    /\ Len(stack') < Len(stack)
    /\ ~crashed'
    /\ Rest[Len(Rest)].op = "start" => timers' # timers

\* C2: the events of a block are emitted in the order BLOCK_START, then
\* BLOCK_ITEM and typed event per item in block order, then BLOCK_END, then
\* the block event: what has been emitted for a block is always an initial
\* part of that sequence, and generateAndEmitBlock returns normally only
\* from the last emit of the sequence, the block event.  (A listener that
\* throws cuts the sequence short; events of calls that listeners make may
\* fall in between.)
C2_EventOrder ==
    /\ []C2_Ordered
    /\ [][ GenEndsNormally => Top.idx = 2 * Len(blocks[Top.blk].items) + 3 ]_vars

\* generateAndEmitBlock is in its last emit for a block with a transaction
\* and a state change: all seven events of the block are out
C2_Witness ==
    \E j \in 1..Len(stack) :
        /\ stack[j].op = "gen" /\ stack[j].pc = "emit"
        /\ Len(blocks[stack[j].blk].items) = 2
        /\ stack[j].idx = 7
        /\ Len(BlockEvents(blocks[stack[j].blk].header.hash)) = 7

\* C10 (as claimed): a failing generation attempt never escapes: no timer
\* callback dies in generateAndEmitBlock, and a generator that is running
\* with no call in progress has its timer armed.
C10_FailureContained ==
    /\ ~(crashed /\ stack[1].pc = "gen")
    /\ (stack = <<>> /\ running) => intervalId # NoTimer

\* generateAndEmitBlock is entered and takes the failure branch
FailureBegins ==
    /\ Len(stack') > Len(stack)
    /\ stack'[Len(stack')].op = "gen" /\ stack'[Len(stack')].pc = "fail1"

\* a failed attempt goes on from one of its emits (to its next emit, or to
\* its end); calls that listeners make meanwhile are not steps of the attempt
FailureContinues ==
    /\ stack # <<>> /\ Top.op = "gen" /\ Top.blk = 0
    /\ stack' # stack /\ Len(stack') <= Len(stack)

\* a generation attempt succeeds: it appends a block
BlockAppended == Len(blocks') = Len(blocks) + 1

StartRejected ==
    /\ thrown' = "STREAM_ALREADY_RUNNING"
    /\ stack' = stack
    /\ crashed' = crashed

\* a call of start() is accepted: a frame of start() is pushed
StartAccepted ==
    /\ Len(stack') > Len(stack)
    /\ stack'[Len(stack) + 1].op = "start"

\* C12: start() is rejected with STREAM_ALREADY_RUNNING exactly when the
\* generator is running (paused or not); the rejected call changes none of
\* running, paused, the timer, the next block number and the log and emits
\* no event; start() on a generator that is not running is accepted and
\* sets running.
C12_StartWhileRunning ==
    [][ /\ StartRejected =>
              /\ running
              /\ UNCHANGED <<running, paused, intervalId, timers,
                             currentBlockNumber, blocks>>
              /\ events' = Window
        /\ StartAccepted => (~running /\ running' /\ ~paused')
      ]_vars

\* start() has just been rejected on a paused generator, called from a
\* listener: the events of the turn are as they were
C12_Witness ==
    /\ thrown = "STREAM_ALREADY_RUNNING"
    /\ running /\ paused
    /\ stack # <<>> /\ calls = 1
    /\ intervalId # NoTimer

\* no generator operation, timer callback or listener is in progress
Quiescent == stack = <<>> /\ ~crashed

\* C13 (as claimed): whenever nothing is in progress the repeating timer
\* is armed if and only if running is true, and at most one timer is armed
\* at any time.
C13_TimerIffRunning ==
    /\ Quiescent => (timers # {} <=> running)
    /\ Cardinality(timers) <= 1

\* the event this step emits, NoEvent if it emits none
Emitted ==
    IF events' # <<>> /\ events' = Append(Window, events'[Len(events')])
    THEN events'[Len(events')]
    ELSE NoEvent

\* a timer fires: its callback is entered from the event loop
TickFires == stack = <<>> /\ stack' # <<>> /\ stack'[1].op = "tick"

\* the timer callback that found the generator paused goes on from one of
\* its two emits
HeartbeatContinues ==
    /\ stack # <<>> /\ Top.op = "tick"
    /\ stack' # stack /\ Len(stack') <= Len(stack)

\* how many events of the turn are on channel ch with type type
CountEvents(ch, type) ==
    Cardinality({k \in 1..Len(events) : events[k].ch = ch /\ events[k].type = type})

\* C14: a timer tick that fires while paused appends no block and leaves
\* the next block number unchanged; when the callback returns it has
\* emitted exactly one heartbeat event and one STREAM_HEARTBEAT stream
\* event.  A heartbeat event is emitted only by a tick that fires while
\* paused (and so running) is true, a STREAM_HEARTBEAT only by that same
\* callback after its heartbeat event.
C14_HeartbeatWhilePaused ==
    [][ /\ (TickFires /\ paused) =>
              /\ UNCHANGED <<blocks, currentBlockNumber>>
              /\ Emitted.ch = "heartbeat"
        /\ HeartbeatContinues =>
              /\ UNCHANGED <<blocks, currentBlockNumber>>
              /\ (stack' = <<>> /\ ~crashed') =>
                    /\ CountEvents("heartbeat", "") = 1
                    /\ CountEvents("streamEvent", "STREAM_HEARTBEAT") = 1
        /\ Emitted.ch = "heartbeat" => (TickFires /\ paused /\ running)
        /\ Emitted.type = "STREAM_HEARTBEAT" =>
              (HeartbeatContinues /\ Top.pc = "hb1" /\ CountEvents("heartbeat", "") = 1)
      ]_vars

\* a tick that fired on a paused generator with a block in its log has
\* emitted its heartbeat and its STREAM_HEARTBEAT event
C14_Witness ==
    /\ stack # <<>> /\ Top.op = "tick" /\ Top.pc = "hb2"
    /\ paused /\ Len(blocks) >= 1
    /\ CountEvents("heartbeat", "") = 1
    /\ CountEvents("streamEvent", "STREAM_HEARTBEAT") = 1

\* C15 (as claimed): every heartbeat emitted carries the number of the
\* last produced block, the header.number of the last block of the log,
\* whatever operations came before it (seek and injected failures too).
C15_HeartbeatCarriesLastBlock ==
    [][ (Emitted.ch = "heartbeat" /\ blocks # <<>>) =>
            Emitted.num = blocks[Len(blocks)].header.number ]_vars

\* C16: paused implies running in every state.  The paused flag is set
\* only by a step that emits 'paused', taken while running and not paused;
\* it is cleared only by a step that emits 'resumed', taken while running
\* and paused, or by stop(); no other step emits 'paused' or 'resumed'.
\* So pause() and resume() on a generator that is not running, pause() on a
\* paused one and resume() on one that is not paused change nothing and
\* emit nothing, and the two events alternate within a run.
C16_PauseResume ==
    /\ [](paused => running)
    /\ [][ /\ Emitted.ch = "paused" =>
                 (running /\ ~paused /\ paused' /\ running')
           /\ Emitted.ch = "resumed" =>
                 (running /\ paused /\ ~paused' /\ running')
           /\ (~paused /\ paused') => Emitted.ch = "paused"
           /\ (paused /\ ~paused') => Emitted.ch \in {"resumed", "end"}
           /\ Emitted.ch \in {"paused", "resumed"} =>
                 UNCHANGED <<running, intervalId, timers, currentBlockNumber, blocks>>
          ]_vars

\* pause() took effect and a listener of 'paused' called resume(), which
\* took effect too: the two events are out in that order
C16_Witness ==
    /\ running /\ ~paused
    /\ Len(events) = 2
    /\ events[1].ch = "paused" /\ events[2].ch = "resumed"

----------------------------------------------------------------------------
(* The generator with the history of its latest pause *)

\* mark after a step other than seek.  phase: "paused" from the pause()
\* that takes effect, "resumed" from the resume() that ends it, "done" once
\* the next block is appended, "none" after stop().  len: the length of the
\* log at that pause().  beat: a timer fired during the pause.  sought:
\* the number of the latest seek() accepted after the last block was
\* appended, NoBlockNumber if there was none; before, between, after:
\* seek() was accepted after the last block before the pause, during the
\* pause, after the resume() and before the next block.
AfterStep(m) ==
    CASE BlockAppended ->
           [m EXCEPT !.sought = NoBlockNumber,
                     !.phase = IF @ = "resumed" THEN "done" ELSE @]
      [] Emitted.ch = "paused" ->
           [NoMark EXCEPT !.phase = "paused", !.len = Len(blocks),
                          !.sought = m.sought,
                          !.before = m.sought # NoBlockNumber]
      [] Emitted.ch = "resumed" /\ m.phase = "paused" ->
           [m EXCEPT !.phase = "resumed"]
      [] Emitted.ch = "heartbeat" /\ m.phase = "paused" ->
           [m EXCEPT !.beat = TRUE]
      [] Emitted.ch = "end" ->
           [NoMark EXCEPT !.sought = m.sought]
      [] OTHER -> m

\* mark after seek(blockNumber)
AfterSeek(m, blockNumber) ==
    IF InvalidBlockNumber(blockNumber)
    THEN m
    ELSE [m EXCEPT !.sought = blockNumber,
                   !.between = @ \/ m.phase = "paused",
                   !.after = @ \/ m.phase = "resumed"]

\* a step of the generator with its history
Observed(A) ==
    A /\ mark' = AfterStep(mark) /\ UNCHANGED <<indexVars, routerVars>>

NextPause ==
    \/ \E r \in RandomPercents, rnd \in BlockRands(StreamDraws) : Observed(Start(r, rnd))
    \/ \E r \in RandomPercents, rnd \in BlockRands(StreamDraws) : Observed(Tick(r, rnd))
    \/ Observed(Stop)
    \/ Observed(Pause)
    \/ Observed(Resume)
    \/ \E n \in -1..MaxSeek :
          Seek(n) /\ mark' = AfterSeek(mark, n) /\ UNCHANGED <<indexVars, routerVars>>
    \/ Observed(ListenerReturn)
    \/ Observed(ListenerThrow)

SpecPause == Init /\ [][NextPause]_vars

\* the block this step appends continues the log from the last block that
\* preceded the pause
ContinuesFromPause ==
    LET b == blocks'[Len(blocks')] IN
    /\ b.header.number = blocks[mark.len].header.number + 1
    /\ b.header.previousHash = blocks[mark.len].header.hash

\* C17 (as claimed): after a pause() and a later resume() with no seek
\* between the two, the first block produced has the number of the last
\* block before the pause plus 1 and that block's hash as previousHash.
C17_ResumeContinues ==
    [][ (BlockAppended /\ mark.phase = "resumed" /\ mark.len >= 1 /\ ~mark.between)
            => ContinuesFromPause ]_vars

\* C17 (amended): no block is appended during a pause, and after a pause()
\* and a later resume(), with no seek from the last block before the pause
\* to the first block after the resume, that first block has the number of
\* the last block before the pause plus 1 and that block's hash as
\* previousHash, whether or not timers fired during the pause.
C17_ResumeContinuesNoSeek ==
    [][ /\ BlockAppended => mark.phase # "paused"
        /\ ( /\ BlockAppended /\ mark.phase = "resumed" /\ mark.len >= 1
             /\ ~mark.before /\ ~mark.between /\ ~mark.after )
               => ContinuesFromPause
      ]_vars

\* the first block after a resume() is in the log; a timer fired during the
\* pause, which began with a block in the log, and seek was not called
C17_Witness ==
    /\ mark.phase = "done" /\ mark.beat /\ mark.len >= 1
    /\ ~mark.before /\ ~mark.between /\ ~mark.after
    /\ Len(blocks) > mark.len

\* a call of seek() is rejected: it throws
SeekRejected ==
    /\ thrown' = "INVALID_BLOCK_NUMBER"
    /\ stack' = stack
    /\ crashed' = crashed

\* a call of seek() is accepted: the next block number moves without a
\* block being appended, or the history records the call
SeekAccepted ==
    \/ currentBlockNumber' # currentBlockNumber /\ ~BlockAppended
    \/ mark'.sought # mark.sought /\ mark'.sought # NoBlockNumber

\* C18: a rejected seek (n < 0, INVALID_BLOCK_NUMBER) leaves the next
\* block number, the log and the flags unchanged, so the number is never
\* negative; an accepted seek(n), in any lifecycle state, sets the next
\* block number to n and changes neither the log nor running, paused or
\* the timer, and emits nothing; the number stays n until a block is
\* appended, and that block has header.number = n.
C18_Seek ==
    /\ [](currentBlockNumber >= 0)
    /\ [](mark.sought # NoBlockNumber => currentBlockNumber = mark.sought)
    /\ [][ /\ SeekRejected =>
                 /\ UNCHANGED <<currentBlockNumber, blocks, running, paused,
                                intervalId, timers, mark>>
                 /\ events' = Window
           /\ SeekAccepted =>
                 /\ currentBlockNumber' = mark'.sought
                 /\ thrown' = "none"
                 /\ UNCHANGED <<blocks, running, paused, intervalId, timers, stack>>
                 /\ events' = Window
           /\ (BlockAppended /\ mark.sought # NoBlockNumber) =>
                 blocks'[Len(blocks')].header.number = mark.sought
          ]_vars

\* the block produced after seek(0), called on a paused generator whose
\* log held block 1, is in the log with number 0
C18_Witness ==
    /\ Len(blocks) = 2
    /\ blocks[1].header.number = 1
    /\ blocks[2].header.number = 0
    /\ mark.phase = "done" /\ mark.between

\* C19 (as claimed): the first block produced after an accepted seek(n)
\* has number n and an empty previousHash, however many blocks the log
\* held before the seek.
C19_SeekBreaksChain ==
    [][ (BlockAppended /\ mark.sought # NoBlockNumber) =>
            LET b == blocks'[Len(blocks')] IN
            /\ b.header.number = mark.sought
            /\ b.header.previousHash = NoHash ]_vars

\* the channels of the events a generation attempt or a timer emits
GeneratorChannels ==
    {"block", "streamEvent", "transaction", "stateChange", "heartbeat", "error"}

\* C20 (as claimed): from a call of stop() until the next accepted start(),
\* that is while running is false, no timer is armed, no block is appended
\* to the log and no block, stream, transaction, stateChange, heartbeat or
\* error event is emitted, wherever stop() was called from.
C20_StoppedIsSilent ==
    /\ [](~running => timers = {})
    /\ [][ (~running /\ ~running') =>
               (~BlockAppended /\ Emitted.ch \notin GeneratorChannels) ]_vars

\* C21 (as claimed): stop() on a generator that is not running changes
\* none of running, paused, the timer, the next block number and the log and
\* emits no 'end': an 'end' event is emitted only by the stop() that ends a
\* started run.
C21_StopIdempotent ==
    [][ Emitted.ch = "end" =>
            (running /\ UNCHANGED <<currentBlockNumber, blocks>>) ]_vars

\* generateAndEmitBlock, frame j of the stack, is between the BLOCK_START
\* event and the aggregated block event of its block
InsideBlock(j) ==
    /\ stack[j].op = "gen" /\ stack[j].pc = "emit"
    /\ stack[j].idx < Len(EventsOf(blocks[stack[j].blk]))

\* C22 (as claimed): between a block's BLOCK_START event and its block
\* event no heartbeat, no 'end' and no event of another block is emitted,
\* whatever operations the listeners call.
C22_NoInterleaving ==
    [][ \A j \in 1..Len(stack) :
           InsideBlock(j) =>
               /\ Emitted.ch \notin {"heartbeat", "end"}
               /\ Emitted.blk \in {NoHash, blocks[stack[j].blk].header.hash}
      ]_vars

----------------------------------------------------------------------------
(* The block assembly: a generator without failures whose listeners return *)

\* the configurations of the block assembly
AssemblyOptions ==
    [ failureRate : {0},
      transactionsPerBlock : 1..MaxAssembledTxs,
      enableStateProofs : BOOLEAN,
      startBlockNumber : {1} ]

\* the values the random helpers draw from in the block assembly: amounts
\* at both ends of randomInt(1_000_000, 100_000_000), fees at both ends of
\* randomInt(50_000, 500_000), in units of 10^4 tinybars
AssemblyDraws ==
    [ payers |-> {100}, recipients |-> {200}, nodes |-> {3}, amounts |-> {100, 10000},
      fees |-> {5, 50}, success |-> BOOLEAN, values |-> {7}, delays |-> {2000} ]

InitBlocks ==
    /\ StreamInitOver(AssemblyOptions) /\ IndexInit /\ RouterInit /\ mark = NoMark
    /\ errorListener /\ strategy = "auto" /\ hasPrimary

\* with failureRate = 0 the draw of Math.random() in generateAndEmitBlock
\* is of no effect: one draw stands for all
NextBlocks ==
    \/ \E rnd \in BlockRands(AssemblyDraws) : stack = <<>> /\ StreamOnly(Start(99, rnd))
    \/ \E rnd \in BlockRands(AssemblyDraws) : StreamOnly(Tick(99, rnd))
    \/ StreamOnly(ListenerReturn)

SpecBlocks == InitBlocks /\ [][NextBlocks]_vars

\* the transactions and the state changes among the items of block b
TransactionsOf(b) ==
    SelectSeq(b.items, LAMBDA it : it.kind = "transaction")

StateChangesOf(b) ==
    SelectSeq(b.items, LAMBDA it : it.kind = "stateChange")

\* the sum of the amounts of a transfers list
RECURSIVE SumAmounts(_)
SumAmounts(transfers) ==
    IF transfers = <<>> THEN 0
    ELSE Head(transfers).amount + SumAmounts(Tail(transfers))

\* C23: the transfers of every generated transaction are a debit of
\* -(amount + fee) from the payer, a credit of amount and a credit of fee,
\* and their signed amounts sum to exactly zero.
C23_TransfersSumToZero ==
    \A i \in 1..Len(blocks) :
        LET txs == TransactionsOf(blocks[i]) IN
        \A j \in 1..Len(txs) :
            LET t == txs[j].data.transfers IN
            /\ Len(t) = 3
            /\ t[1].accountId = txs[j].data.payerAccountId
            /\ t[2].amount > 0 /\ t[3].amount > 0
            /\ t[1].amount = 0 - (t[2].amount + t[3].amount)
            /\ SumAmounts(t) = 0

\* a block of two transactions that differ in amount and fee
C23_Witness ==
    \E i \in 1..Len(blocks) :
        LET txs == TransactionsOf(blocks[i]) IN
        /\ Len(txs) = 2
        /\ txs[1].data.transfers[2].amount # txs[2].data.transfers[2].amount
        /\ txs[1].data.transfers[3].amount # txs[2].data.transfers[3].amount

\* C24: in every block of the log each stateChange item carries the id of
\* a transaction item of the same block whose status is SUCCESS (and that
\* transaction's payer as entity); each successful transaction has exactly
\* one state change and each failed one none, so the state changes are as
\* many as the block's successfulTransactions counter says.
C24_StateChangesOfSuccesses ==
    \A i \in 1..Len(blocks) :
        LET txs == TransactionsOf(blocks[i])
            scs == StateChangesOf(blocks[i])
        IN  /\ \A k \in 1..Len(scs) :
                  \E j \in 1..Len(txs) :
                      /\ txs[j].data.transactionId = scs[k].data.transactionId
                      /\ txs[j].data.status = "SUCCESS"
                      /\ txs[j].data.payerAccountId = scs[k].data.entityId
            /\ \A j \in 1..Len(txs) :
                  Cardinality({k \in 1..Len(scs) :
                      scs[k].data.transactionId = txs[j].data.transactionId})
                    = IF txs[j].data.status = "SUCCESS" THEN 1 ELSE 0
            /\ Len(scs) = blocks[i].successfulTransactions

\* a block with a successful and a failed transaction and one state change
C24_Witness ==
    \E i \in 1..Len(blocks) :
        LET txs == TransactionsOf(blocks[i]) IN
        /\ Len(txs) = 2
        /\ txs[1].data.status # "SUCCESS" /\ txs[2].data.status = "SUCCESS"
        /\ Len(StateChangesOf(blocks[i])) = 1

\* C25: every block of the log has header.itemCount = items.length; its
\* transaction items are options.transactionsPerBlock many, and
\* successfulTransactions (the number of them with status SUCCESS) plus
\* failedTransactions is that number; its proof names the header's number
\* and hash and is verified, with enableStateProofs true or false.
C25_BlockWellFormed ==
    \A i \in 1..Len(blocks) :
        LET b == blocks[i]
            txs == TransactionsOf(b)
        IN  /\ b.header.itemCount = Len(b.items)
            /\ Len(txs) = options.transactionsPerBlock
            /\ b.successfulTransactions =
                  Cardinality({j \in 1..Len(txs) : txs[j].data.status = "SUCCESS"})
            /\ b.failedTransactions >= 0
            /\ b.successfulTransactions + b.failedTransactions = options.transactionsPerBlock
            /\ b.proof.blockNumber = b.header.number
            /\ b.proof.blockHash = b.header.hash
            /\ b.proof.verified

\* two blocks of two transactions each, generated with enableStateProofs
\* off, one with a failed transaction
C25_Witness ==
    /\ Len(blocks) = 2
    /\ ~options.enableStateProofs
    /\ options.transactionsPerBlock = 2
    /\ blocks[1].failedTransactions = 1
    /\ blocks[2].failedTransactions = 0


\* generateAndEmitBlock, suspended in an emit of the sequence of a block,
\* leaves that sequence: it returns, or a listener's exception takes it to
\* its catch block
SequenceEnds ==
    /\ stack # <<>> /\ Top.op = "gen" /\ Top.pc = "emit"
    /\ ~ /\ Len(stack') >= Len(stack)
         /\ stack'[Len(stack)].op = "gen"
         /\ stack'[Len(stack)].pc = "emit"
         /\ stack'[Len(stack)].blk = Top.blk

\* C38 (as claimed): the generation step that appended a block leaves the
\* block's event sequence only after its last event, the block event: every
\* block of the log is announced, also when a listener of an earlier event
\* of the block throws.
C38_EveryBlockAnnounced ==
    [][ SequenceEnds =>
          /\ Top.idx = 2 * Len(blocks[Top.blk].items) + 3
          /\ events[Len(events)].ch = "block" ]_vars

----------------------------------------------------------------------------
(* Claims about the query index *)

\* the input of the query q passes the query's validation
PassesValidation(q) ==
    CASE q.op = "getBlock"       -> ~q.input.half /\ q.input.n >= 0
      [] q.op = "getBlockRange"  -> ~(q.input[1] < 0 \/ q.input[2] < q.input[1])
      [] q.op = "getTransaction" -> TransactionIdSchema(q.input)
      [] q.op \in {"getStateProof", "getAccountBalance", "getTransactionsByAccount"} ->
            AccountIdSchema(q.input)
      [] OTHER -> TRUE

\* the items of every block of the log, in log order
RECURSIVE LogItems(_)
LogItems(blks) ==
    IF blks = <<>> THEN <<>> ELSE Head(blks).items \o LogItems(Tail(blks))

LogTransactions ==
    LET txs == SelectSeq(LogItems(blocks), LAMBDA item : item.kind = "transaction")
    IN  [i \in 1..Len(txs) |-> txs[i].data]

LogStateChanges ==
    LET chs == SelectSeq(LogItems(blocks), LAMBDA item : item.kind = "stateChange")
    IN  [i \in 1..Len(chs) |-> chs[i].data]

\* the sum of the amounts the transfers of txs credit to account a
RECURSIVE NetTransfers(_, _)
NetTransfers(txs, a) ==
    IF txs = <<>> THEN 0
    ELSE LET named == SelectSeq(Head(txs).transfers, LAMBDA t : t.accountId = a)
         IN  (IF Len(named) = 0 THEN 0
              ELSE IF Len(named) = 1 THEN named[1].amount
              ELSE IF Len(named) = 2 THEN named[1].amount + named[2].amount
              ELSE named[1].amount + named[2].amount + named[3].amount)
             + NetTransfers(Tail(txs), a)

\* the balance account a can have before any transfer is folded
SeededBalances(a) ==
    IF a \in DOMAIN SeedDefaultBalances
    THEN {SeedDefaultBalances[a]}
    ELSE {0} \cup SeedBalanceDraws

ReferencedAccounts ==
    { LogTransactions[i].transfers[j].accountId : i \in 1..Len(LogTransactions), j \in 1..3 }

\* every block of the log is folded into the three maps exactly once
IndexConsistent ==
    /\ Len(txIndex) = Len(LogTransactions)
    /\ {txIndex[i] : i \in 1..Len(txIndex)}
         = {LogTransactions[i] : i \in 1..Len(LogTransactions)}
    /\ \A e \in DOMAIN stateIndex \cup {LogStateChanges[i].entityId : i \in 1..Len(LogStateChanges)} :
          MapGet(stateIndex, e, <<>>) = SelectSeq(LogStateChanges, LAMBDA c : c.entityId = e)
    /\ ReferencedAccounts \subseteq DOMAIN balanceIndex
    /\ \A a \in DOMAIN balanceIndex :
          (balanceIndex[a] - NetTransfers(LogTransactions, a)) \in SeededBalances(a)

\* C7 (as claimed; SpecIndex): right after a query that passed validation,
\* every block of the generator's log has been folded into the transaction,
\* balance and state-change maps exactly once, whatever generator operations
\* (seek included) came before.
C7_IndexConsistentAfterQuery ==
    (qresult.op # "none" /\ PassesValidation(qresult)) => IndexConsistent

\* a block of the log has been folded: its transactions are in the txIndex
Folded(b) ==
    \E j \in 1..Len(b.items) :
        /\ b.items[j].kind = "transaction"
        /\ TxIndexGet(txIndex, b.items[j].data.transactionId) # <<>>

\* the highest block number folded so far, -1 when none
HighestFolded ==
    LET nums == {blocks[i].header.number : i \in {k \in 1..Len(blocks) : Folded(blocks[k])}}
    IN  IF nums = {} THEN -1 ELSE CHOOSE n \in nums : \A m \in nums : m <= n

\* C8 (SpecIndex): the watermark lastIndexedBlock never decreases, over
\* queries and generator operations alike, and it always equals the highest
\* block number folded so far.
C8_WatermarkMonotone ==
    /\ [](lastIndexedBlock = HighestFolded)
    /\ [][lastIndexedBlock' >= lastIndexedBlock]_vars

\* a refresh ran over a log whose last block has a lower number than the
\* watermark, and the watermark stayed
C8_Witness ==
    /\ qresult.op # "none" /\ PassesValidation(qresult)
    /\ Len(blocks) = 2
    /\ blocks[2].header.number < blocks[1].header.number
    /\ lastIndexedBlock = blocks[1].header.number

\* C9 (SpecIndex): a query whose input fails validation returns a failure
\* value and leaves the watermark and the three index maps unchanged.
C9_InvalidInputNoEffect ==
    [][ (qresult'.op # "none" /\ ~PassesValidation(qresult'))
          => /\ ~qresult'.ok
             /\ UNCHANGED <<txIndex, balanceIndex, stateIndex, lastIndexedBlock>> ]_vars

\* an invalid query of each validated kind was answered while the log held
\* blocks that are not indexed
C9_Witness ==
    /\ qresult.op = "getBlockRange" /\ ~PassesValidation(qresult) /\ ~qresult.ok
    /\ Len(blocks) = 2
    /\ lastIndexedBlock < blocks[1].header.number

\* the balance account a had before any transfer was folded: what the
\* balance map holds for it less the transfers of the folded transactions
ImpliedSeed(bal, folded, a) == bal[a] - NetTransfers(folded, a)

\* the accounts the transfers of the transactions txs name
NamedIn(txs) == {txs[i].transfers[j].accountId : i \in 1..Len(txs), j \in 1..3}

\* Math.max(0, tinybars)
Clamped(tinybars) == IF tinybars > 0 THEN tinybars ELSE 0

\* C26: every account of the balance map holds s + T, T the sum of the
\* transfers naming it in the folded transactions, where s is fixed once
\* the account is in the map: the default balance for a well-known account,
\* the seed drawn by the getAccountBalance that put it there when no folded
\* transfer named it yet, and 0 when a fold put it there; and
\* getAccountBalance(a) for a valid a returns max(0, s + T) of the index it
\* leaves.
C26_BalanceIsSeedPlusFold ==
    /\ [](\A a \in DOMAIN SeedDefaultBalances :
            /\ a \in DOMAIN balanceIndex
            /\ ImpliedSeed(balanceIndex, txIndex, a) = SeedDefaultBalances[a])
    /\ [][ /\ \A a \in DOMAIN balanceIndex :
                /\ a \in DOMAIN balanceIndex'
                /\ ImpliedSeed(balanceIndex', txIndex', a)
                     = ImpliedSeed(balanceIndex, txIndex, a)
           /\ \A a \in (DOMAIN balanceIndex') \ (DOMAIN balanceIndex) :
                IF a \in NamedIn(txIndex')
                THEN ImpliedSeed(balanceIndex', txIndex', a) = 0
                ELSE /\ qresult'.op = "getAccountBalance" /\ qresult'.input = a
                     /\ ImpliedSeed(balanceIndex', txIndex', a) \in SeedBalanceDraws
           /\ (qresult'.op = "getAccountBalance" /\ AccountIdSchema(qresult'.input)) =>
                /\ qresult'.ok
                /\ qresult'.input \in DOMAIN balanceIndex'
                /\ qresult'.value.balanceTinybars
                     = Clamped(balanceIndex'[qresult'.input])
          ]_vars

\* getAccountBalance has just answered 0 for the payer of the folded
\* transactions, which was never looked up before its debit was folded
C26_Witness ==
    /\ qresult.op = "getAccountBalance" /\ qresult.ok
    /\ qresult.input = AccountId(200)
    /\ NetTransfers(txIndex, AccountId(200)) < 0
    /\ balanceIndex[AccountId(200)] < 0
    /\ qresult.value.balanceTinybars = 0


\* C27: for a valid account that no transfer of the log names, a
\* getAccountBalance that finds no balance stored returns a seedBalance draw
\* and stores it, one that finds a balance stored returns that balance and
\* leaves it stored, and no other step changes the stored balance: every
\* lookup after the first returns what the first returned.
C27_SeedMemoized ==
    [][ \A a \in {id \in BalanceAccountIds : AccountIdSchema(id)} :
           a \notin NamedIn(LogTransactions') =>
              /\ (qresult'.op = "getAccountBalance" /\ qresult'.input = a) =>
                    /\ qresult'.ok
                    /\ a \in DOMAIN balanceIndex'
                    /\ qresult'.value.balanceTinybars = balanceIndex'[a]
                    /\ a \notin DOMAIN balanceIndex =>
                          qresult'.value.balanceTinybars \in SeedBalanceDraws
              /\ a \in DOMAIN balanceIndex =>
                    /\ a \in DOMAIN balanceIndex'
                    /\ balanceIndex'[a] = balanceIndex[a]
      ]_vars

\* getAccountBalance has answered for an account that has no default balance
\* and that no transfer of a log of two blocks names
C27_Witness ==
    /\ qresult.op = "getAccountBalance" /\ qresult.ok
    /\ qresult.input = AccountId(9)
    /\ Len(blocks) = 2
    /\ lastIndexedBlock = blocks[2].header.number
    /\ AccountId(9) \notin NamedIn(LogTransactions)
    /\ qresult.value.balanceTinybars = balanceIndex[AccountId(9)]
    /\ balanceIndex[AccountId(9)] \in SeedBalanceDraws


\* the positions of the log whose block has the number n
PositionsOf(blks, n) == {i \in 1..Len(blks) : blks[i].header.number = n}

\* C28 (SpecIndex): what getBlock(n) returns is determined by n and the log,
\* and no query changes the log, so two calls with no block produced in
\* between return the same whatever queries come between them: for a valid
\* n the first block of the log whose header.number is n, or, when there is
\* none, a QUERY_FAILED failure naming n and the length of the log; for an
\* invalid n an INVALID_BLOCK_NUMBER failure.
C28_GetBlockIdempotent ==
    [][ /\ qresult'.op # "none" => blocks' = blocks
        /\ qresult'.op = "getBlock" =>
             LET n     == qresult'.input
                 found == PositionsOf(blocks', n.n)
             IN  IF n.half \/ n.n < 0
                 THEN ~qresult'.ok /\ qresult'.code = "INVALID_BLOCK_NUMBER"
                 ELSE IF found = {}
                 THEN /\ ~qresult'.ok
                      /\ qresult'.code = "QUERY_FAILED"
                      /\ qresult'.value = [blockNumber |-> n, availableBlocks |-> Len(blocks')]
                 ELSE /\ qresult'.ok
                      /\ qresult'.value.header.number = n.n
                      /\ qresult'.value
                           = blocks'[CHOOSE i \in found : \A j \in found : i <= j]
      ]_vars

\* getBlock has returned the first of two blocks of the log that have the
\* same number
C28_Witness ==
    /\ qresult.op = "getBlock" /\ qresult.ok
    /\ Len(blocks) = 2
    /\ blocks[1].header.number = blocks[2].header.number
    /\ blocks[1] # blocks[2]
    /\ qresult.value = blocks[1]


\* no two transactions of the log share a transactionId
UniqueTransactionIds ==
    \A i, j \in 1..Len(LogTransactions) :
        LogTransactions[i].transactionId = LogTransactions[j].transactionId => i = j

\* C29 (as claimed; SpecIndex, failureRate = 0): when the k blocks generated
\* so far hold transactions of pairwise different ids, getStats() reports
\* totalBlocks = k and totalTransactions = k * transactionsPerBlock.
C29_StatsCountBlocks ==
    (qresult.op = "getStats" /\ UniqueTransactionIds) =>
        /\ qresult.value.totalBlocks = Len(blocks)
        /\ qresult.value.totalTransactions = Len(blocks) * options.transactionsPerBlock


\* C30 (as claimed): right after getStateProof(id) for a valid id, stateValue
\* is the newValue of the latest state change recorded for id when there is
\* one, and otherwise the balance that getAccountBalance(id) reports in that
\* index state, whichever of the two queries comes first.
C30_StateProofFallsBackToBalance ==
    (qresult.op = "getStateProof" /\ AccountIdSchema(qresult.input)) =>
        LET id      == qresult.input
            changes == MapGet(stateIndex, id, <<>>)
        IN  /\ qresult.ok
            /\ IF changes # <<>>
               THEN qresult.value.stateValue = changes[Len(changes)].newValue
               ELSE \A seed \in SeedBalanceDraws :
                      qresult.value.stateValue
                        = NumToStr(getAccountBalance(id, seed).result.value.balanceTinybars)

----------------------------------------------------------------------------
(* Claims about the fallback router.  A step is a query of the router when *)
(* it leaves rlog.step = "query"; the query called the primary when it     *)
(* leaves the primary's result in qresult; it issued a remote call when it *)
(* adds a call to inflight.                                                *)

\* the latest step issued a remote call for the query that rlog names
RemoteIssued ==
    \E call \in inflight' \ inflight : call.op = rlog'.op /\ call.input = rlog'.input

\* C3 (SpecRouter): while fallbackActive is true, a router query does not
\* call the primary and goes to the remote path, whatever the primary would
\* have answered.
C3_Hysteresis ==
    [][ (fallbackActive /\ rlog'.step = "query")
          => (qresult'.op = "none" /\ RemoteIssued) ]_vars

\* a getBlock(1) went to the remote path while the primary held block 1
C3_Witness ==
    /\ fallbackActive /\ hasPrimary
    /\ rlog.step = "query" /\ rlog.op = "getBlock" /\ rlog.events = <<>>
    /\ qresult.op = "none"
    /\ StreamGetBlock(blocks, rlog.input) # <<>>
    /\ \E call \in inflight : call.op = "getBlock"

\* C4 (SpecRouter): under strategy disabled no remote call is in flight or
\* completes, fallbackActive is false, no fallbackActivated event is emitted,
\* and a query whose primary fails or is not configured returns
\* FALLBACK_DISABLED.
C4_DisabledNeverRemote ==
    strategy = "disabled" =>
        /\ inflight = {}
        /\ rlog.step # "remote"
        /\ ~fallbackActive
        /\ \A i \in 1..Len(rlog.events) : rlog.events[i] # "fallbackActivated"
        /\ (rlog.step = "query" /\ (qresult.op = "none" \/ ~qresult.ok))
              => rresult = err("FALLBACK_DISABLED", <<>>)

\* the primary failed a query under strategy disabled
C4_Witness ==
    /\ strategy = "disabled" /\ hasPrimary
    /\ rlog.step = "query" /\ qresult.op = rlog.op /\ ~qresult.ok
    /\ rresult.code = "FALLBACK_DISABLED"
    /\ blocks # <<>>

C6_OnlyResetDeactivates ==
    /\ [][ (fallbackActive /\ ~fallbackActive') => rlog'.step = "reset" ]_vars
    /\ [][ (rlog'.step = "query" /\ hasPrimary /\ ~fallbackActive)
             => qresult'.op = rlog'.op ]_vars
    /\ [](rlog.step = "reset" => ~fallbackActive)

\* a remote call succeeded and the fallback stayed active
C6_Witness ==
    /\ rlog.step = "remote" /\ rresult.ok
    /\ rlog.events = <<"mirrorQuery">>
    /\ fallbackActive


\* C31 (as claimed; SpecRouter): a router query whose input is malformed
\* leaves fallbackActive as it was, emits no event and issues no remote call.
C31_MalformedInputNoEffect ==
    [][ (rlog'.step = "query" /\ ~PassesValidation(rlog'))
          => /\ fallbackActive' = fallbackActive
             /\ rlog'.events = <<>>
             /\ inflight' = inflight ]_vars


\* C32 (as claimed; SpecRouter): with no primary configured and a strategy
\* other than disabled, a router query that goes to the remote path leaves
\* fallbackActive true, and emits fallbackActivated when it was false before.
C32_NoPrimaryActivates ==
    [][ (rlog'.step = "query" /\ ~hasPrimary /\ strategy # "disabled")
          => /\ RemoteIssued
             /\ fallbackActive'
             /\ ~fallbackActive => rlog'.events = <<"fallbackActivated">> ]_vars


\* C33 (as claimed; SpecNoReset): under strategy auto, once fallbackActive
\* is true some later query calls the primary again, although resetFallback()
\* is never called.
C33_AutoRecovers ==
    fallbackActive ~> (rlog.step = "query" /\ qresult.op = rlog.op)


\* the ids of the remote calls in flight
InFlightIds == {call.id : call \in inflight}

\* C34 (SpecTimeout): a timer is armed for exactly the remote calls in
\* flight, so each call has its own and none outlives its call; a step that
\* aborts a request aborts the request of one call in flight only, resolves
\* that query to MIRROR_NODE_UNAVAILABLE and leaves every other call in
\* flight with its timer armed; and every call in flight eventually
\* completes.
C34_TimeoutBoundsCall ==
    /\ [](timeouts = InFlightIds)
    /\ [][ aborted' # {} =>
             \E call \in inflight :
                /\ aborted' = {call.id}
                /\ inflight' = inflight \ {call}
                /\ timeouts' = timeouts \ {call.id}
                /\ rlog'.step = "remote" /\ rlog'.op = call.op /\ rlog'.input = call.input
                /\ rlog'.events = <<"mirrorError">>
                /\ rlog'.answer.kind = "timeout"
                /\ rresult' = err("MIRROR_NODE_UNAVAILABLE", <<>>) ]_vars
    /\ \A id \in 1..MaxInflight : (id \in InFlightIds) ~> (id \notin InFlightIds)

\* the request of one call was aborted at its timeout while another call
\* stayed in flight with its timer armed
C34_Witness ==
    /\ aborted # {}
    /\ rlog.answer.kind = "timeout"
    /\ rlog.step = "remote" /\ rresult.code = "MIRROR_NODE_UNAVAILABLE"
    /\ inflight # {}
    /\ timeouts = InFlightIds
    /\ aborted \cap InFlightIds = {}


\* C35 (SpecRouter): whatever the fetch of a remote call settles with, the
\* query resolves to a Result and fallbackActive stays as it was; the Result
\* is a success only for a 2xx body that passes the schema, and every other
\* Result is a failure that carries an error code: MIRROR_NODE_UNAVAILABLE
\* for a non-2xx status, a network failure, a timeout and a body failing the
\* schema, QUERY_FAILED for an empty transaction list.
C35_RemoteFailureIsValue ==
    [][ rlog'.step = "remote" =>
          /\ fallbackActive' = fallbackActive
          /\ rresult' # Unresolved
          /\ rresult'.ok =>
                /\ rlog'.answer.kind = "ok"
                /\ rlog'.answer.data \in MirrorData(rlog'.op)
          /\ ~rresult'.ok =>
                rresult'.code \in {"MIRROR_NODE_UNAVAILABLE", "QUERY_FAILED", "FALLBACK_FAILED"}
          /\ (rlog'.answer.kind # "ok" \/ rlog'.answer.data \in InvalidData(rlog'.op))
                => rresult' = err("MIRROR_NODE_UNAVAILABLE", <<>>)
          /\ (rlog'.op = "getTransaction" /\ rlog'.answer.kind = "ok"
                /\ rlog'.answer.data = <<>>)
                => rresult' = err("QUERY_FAILED", <<>>) ]_vars

\* a 2xx body failed the schema while the fallback was active, and the
\* query resolved to a failure value
C35_Witness ==
    /\ rlog.step = "remote" /\ rlog.events = <<"mirrorError">>
    /\ rlog.answer.kind = "ok" /\ rlog.answer.data \in InvalidData(rlog.op)
    /\ ~rresult.ok /\ rresult.code = "MIRROR_NODE_UNAVAILABLE"
    /\ fallbackActive


\* C36 (as claimed; SpecRouter): under strategy manual, with a primary
\* configured, the router issues no remote call: neither the query whose
\* primary call failed nor a later one goes to the Mirror Node.
C36_ManualNeverRemote ==
    (strategy = "manual" /\ hasPrimary) => (inflight = {} /\ rlog.step # "remote")


\* C37 (as claimed; SpecRouter): every Block the router returns as a
\* success, from the primary or mapped from a remote response, has as many
\* items as its header's itemCount says.
C37_RoutedBlockValid ==
    (rlog.op = "getBlock" /\ rresult.ok) =>
        Len(rresult.value.items) = rresult.value.header.itemCount


\* how often the event e is among the events the latest router step emitted
Times(e) == Cardinality({i \in 1..Len(rlog.events) : rlog.events[i] = e})

\* C39 (SpecRouter): a step emits fallbackActivated exactly when it takes
\* fallbackActive from false to true, and fallbackDeactivated exactly when it
\* takes it from true to false, and each at most once, so the two events
\* alternate, fallbackActivated first (the flag starts false), however
\* queries, the completions of their remote calls and resetFallback() are
\* interleaved; resetFallback() on an inactive router changes nothing and
\* emits nothing.
C39_EventsAlternate ==
    /\ [][ /\ Times("fallbackActivated")' = (IF ~fallbackActive /\ fallbackActive' THEN 1 ELSE 0)
           /\ Times("fallbackDeactivated")' = (IF fallbackActive /\ ~fallbackActive' THEN 1 ELSE 0)
           /\ (rlog'.step = "reset" /\ ~fallbackActive) =>
                 /\ rlog'.events = <<>>
                 /\ UNCHANGED <<fallbackActive, inflight, timeouts, strategy, hasPrimary,
                                genVars, txIndex, balanceIndex, stateIndex,
                                lastIndexedBlock>> ]_vars
    /\ [](Times("fallbackActivated") = 1 => fallbackActive)
    /\ [](Times("fallbackDeactivated") = 1 => ~fallbackActive)

\* resetFallback() deactivated the fallback while two queries were suspended
\* on their remote calls
C39_Witness ==
    /\ rlog.step = "reset" /\ rlog.events = <<"fallbackDeactivated">>
    /\ ~fallbackActive
    /\ Cardinality(inflight) = 2


\* C40 (as claimed; SpecRouter): the completion of a remote call emits
\* exactly one event: mirrorQuery when the response is a 2xx body that
\* passes the schema, and mirrorError when the request failed (non-2xx
\* status, network failure, timeout, body failing the schema).
C40_OneEventPerRemoteCall ==
    [][ rlog'.step = "remote" =>
          rlog'.events = IF /\ rlog'.answer.kind = "ok"
                            /\ rlog'.answer.data \in MirrorData(rlog'.op)
                         THEN <<"mirrorQuery">>
                         ELSE <<"mirrorError">> ]_vars

============================================================================
